---- MODULE Spec2Model ----
(***************************************************************************)
(* A model of the arkade-os/skill swap coordinator:                        *)
(*   - the status normalization functions of skills/lendaswap.ts           *)
(*     (mapSwapStatus, isTerminalStatus),                                  *)
(*   - ArkadeBitcoinSkill.waitForIncomingFunds of skills/arkadeBitcoin.ts, *)
(*     as the JavaScript event loop runs it (tasks and the microtask       *)
(*     queue),                                                             *)
(*   - the swap operations of LendaSwapSkill over the remote service and   *)
(*     the local swap storage.                                             *)
(* Each part has a specification of its own; the variables of the other    *)
(* parts stay at their initial values.  The token registry and the quote   *)
(* and swap-creation operations have specifications of their own as well,  *)
(* one of them with resolutions that run concurrently, and so have the     *)
(* operations on the swaps a swap storage holds at construction.           *)
(***************************************************************************)
EXTENDS Integers, Sequences, FiniteSets, TLC

VARIABLES
    \* ---- status functions (lendaswap.ts 72-113)
    sdkStatus,        \* the argument of mapSwapStatus
    mapped,           \* the successive results of mapSwapStatus, applied to its own result
    terminalArg,      \* the argument of isTerminalStatus ("" before the first call)
    terminalRes,      \* the result of isTerminalStatus
    \* ---- waitForIncomingFunds (arkadeBitcoin.ts 214-278)
    wfPc,             \* "idle" | "awaiting" (await fundsPromise) | "done"
    timeoutMs,        \* the argument: <<>> (undefined) or <<ms>>
    settled,          \* let settled
    stopSubscription, \* let stopSubscription: "undefined" | "stop"
    timeoutId,        \* let timeoutId: "undefined" | "timer"
    timer,            \* the timer of setTimeout: "none" | "armed" | "fired" | "cleared"
    fundsPromise,     \* fundsPromise: [state, funds, error]
    setup,            \* the promise wallet.notifyIncomingFunds returned: [state, error]
    microtasks,       \* the microtask queue: the reactions of this call, in order
    timerTask,        \* TRUE while the task that ran the timer callback drains its microtasks
    unsubscribed,     \* how many times the subscription's stop() was invoked
    notified,         \* how many times the wallet invoked the funds callback
    arrivals,         \* how many of the three completions ran (callback, timer, catch)
    settleLog,        \* every resolve()/reject() call made on fundsPromise, in order
    outcome,          \* what the call returned or threw: [kind, event, error]
    \* ---- LendaSwapSkill (lendaswap.ts 179-708)
    client,           \* this.client: "null" | "built"
    tokenCache,       \* this.tokenCache: [null, entries], the Map's entries in insertion order
    storage,          \* the swap storage of the SDK client: the stored swaps, in listing order
    now,              \* the clock (Date.now())
    vocabulary,       \* the statuses the remote service reports in this run
    opResult,         \* what the last operation returned or threw: [op, kind, swaps, error]
    calls,            \* the remote and wallet calls the last operation made, in order
    \* ---- the token registry observed (lendaswap.ts 233-261)
    tokenFetches,     \* how many times resolveEvmToken called client.getTokens()
    asked,            \* the (token, chain) of the last resolveEvmToken call
    \* ---- concurrent resolveEvmToken calls (lendaswap.ts 200-261)
    rPc,              \* where each call stands: "idle" | "building" | "gotClient" | "getTokens" | "done"
    rArg,             \* the (token, chain) arguments of each call
    rOut,             \* what each call returned (a token) or threw
    clientBuilds,     \* how many clients builder.build() has built
    \* ---- getSwapStatus observed (lendaswap.ts 460-493)
    firstCompletedAt  \* the first getSwapStatus result that reported a swap completed
                      \* (<<>> before)

statusVars == <<sdkStatus, mapped, terminalArg, terminalRes>>
waitVars == <<wfPc, timeoutMs, settled, stopSubscription, timeoutId, timer,
              fundsPromise, setup, microtasks, timerTask, unsubscribed,
              notified, arrivals, settleLog, outcome>>
swapVars == <<client, tokenCache, storage, now, vocabulary, opResult, calls>>
registryVars == <<tokenFetches, asked>>
raceVars == <<rPc, rArg, rOut, clientBuilds>>
historyVars == <<firstCompletedAt>>
vars == <<statusVars, waitVars, swapVars, registryVars, raceVars, historyVars>>

-----------------------------------------------------------------------------
(* Bounds *)

\* the longest coin list of one funds notification
MaxCoins == 2
\* how many times the wallet invokes the funds callback in one call
MaxNotifies == 2
\* how many swaps the swap storage holds
MaxSwaps == 2
\* the last instant of the clock
MaxClock == 1
\* how many token listings the registry asks for in one run
MaxFetches == 2
\* how many swaps are created in the runs that observe the registry
MaxRegistrySwaps == 1

-----------------------------------------------------------------------------
(* Status normalization: lendaswap.ts 72-113 *)

\* the SDK's SwapStatus vocabulary, as the switch of mapSwapStatus names it
RecognizedStatuses ==
    {"pending", "clientfundingseen", "clientfunded", "serverfunded",
     "clientredeeming", "clientredeemed", "serverredeemed",
     "clientredeemedandclientrefunded", "expired", "clientfundedtoolate",
     "clientrefunded", "clientfundedserverrefunded",
     "clientrefundedserverfunded", "clientrefundedserverrefunded",
     "clientinvalidfunded"}

\* StablecoinSwapStatus
NormalizedStatuses ==
    {"pending", "funded", "processing", "completed", "expired", "refunded",
     "failed"}

\* strings outside the SDK vocabulary: a future status, another spelling,
\* the empty string, and the normalized names that are no SDK status
UnknownStatuses ==
    {"some_future_status", "awaiting_funding", "", "PENDING", "client_funded",
     "funded", "processing", "completed", "refunded", "failed"}

SdkStatusInputs == RecognizedStatuses \cup UnknownStatuses

\* mapSwapStatus with the case label "expired" missing
mapSwapStatusNoExpiredCase(s) ==
    CASE s = "pending" -> "pending"
      [] s \in {"clientfundingseen", "clientfunded"} -> "funded"
      [] s \in {"serverfunded", "clientredeeming"} -> "processing"
      [] s \in {"clientredeemed", "serverredeemed",
                "clientredeemedandclientrefunded"} -> "completed"
      [] s \in {"clientfundedtoolate"} -> "expired"
      [] s \in {"clientrefunded", "clientfundedserverrefunded",
                "clientrefundedserverfunded",
                "clientrefundedserverrefunded"} -> "refunded"
      [] s = "clientinvalidfunded" -> "failed"
      [] OTHER -> "pending"

\* mapSwapStatus whose default arm hands the SDK status through
mapSwapStatusPassThrough(s) ==
    CASE s = "pending" -> "pending"
      [] s \in {"clientfundingseen", "clientfunded"} -> "funded"
      [] s \in {"serverfunded", "clientredeeming"} -> "processing"
      [] s \in {"clientredeemed", "serverredeemed",
                "clientredeemedandclientrefunded"} -> "completed"
      [] s \in {"expired", "clientfundedtoolate"} -> "expired"
      [] s \in {"clientrefunded", "clientfundedserverrefunded",
                "clientrefundedserverfunded",
                "clientrefundedserverrefunded"} -> "refunded"
      [] s = "clientinvalidfunded" -> "failed"
      [] OTHER -> s

\* mapSwapStatus with "clientfundedtoolate" fallen into the refunded group
mapSwapStatusTooLateRefunded(s) ==
    CASE s = "pending" -> "pending"
      [] s \in {"clientfundingseen", "clientfunded"} -> "funded"
      [] s \in {"serverfunded", "clientredeeming"} -> "processing"
      [] s \in {"clientredeemed", "serverredeemed",
                "clientredeemedandclientrefunded"} -> "completed"
      [] s \in {"expired"} -> "expired"
      [] s \in {"clientfundedtoolate", "clientrefunded",
                "clientfundedserverrefunded", "clientrefundedserverfunded",
                "clientrefundedserverrefunded"} -> "refunded"
      [] s = "clientinvalidfunded" -> "failed"
      [] OTHER -> "pending"

\* switch (sdkStatus) { case ...: return ...; default: return "pending"; }
mapSwapStatus(s) ==
    CASE s = "pending" -> "pending"
      [] s \in {"clientfundingseen", "clientfunded"} -> "funded"
      [] s \in {"serverfunded", "clientredeeming"} -> "processing"
      [] s \in {"clientredeemed", "serverredeemed",
                "clientredeemedandclientrefunded"} -> "completed"
      [] s \in {"expired", "clientfundedtoolate"} -> "expired"
      [] s \in {"clientrefunded", "clientfundedserverrefunded",
                "clientrefundedserverfunded",
                "clientrefundedserverrefunded"} -> "refunded"
      [] s = "clientinvalidfunded" -> "failed"
      [] OTHER -> "pending"

\* isTerminalStatus that also counts "processing" as terminal
isTerminalStatusWithProcessing(s) ==
    \/ s = "completed"
    \/ s = "expired"
    \/ s = "refunded"
    \/ s = "failed"
    \/ s = "processing"

\* status === "completed" || status === "expired" || status === "refunded" || status === "failed"
isTerminalStatus(s) ==
    \/ s = "completed"
    \/ s = "expired"
    \/ s = "refunded"
    \/ s = "failed"

\* the arguments isTerminalStatus is tried on: the normalized set, and
\* strings outside it
TerminalInputs == NormalizedStatuses \cup {"awaiting_funding", "clientredeemed", "COMPLETED"}

StatusIdle ==
    /\ sdkStatus = "pending"
    /\ mapped = <<>>
    /\ terminalArg = ""
    /\ terminalRes = FALSE

\* a call mapSwapStatus(sdkStatus)
MapStatus ==
    /\ mapped = <<>>
    /\ mapped' = <<mapSwapStatus(sdkStatus)>>
    /\ UNCHANGED <<sdkStatus, terminalArg, terminalRes>>

\* mapSwapStatus applied to the value it returned
Renormalize ==
    /\ Len(mapped) = 1
    /\ mapped' = Append(mapped, mapSwapStatus(mapped[1]))
    /\ UNCHANGED <<sdkStatus, terminalArg, terminalRes>>

\* a call isTerminalStatus(s)
ClassifyTerminal(s) ==
    /\ terminalArg' = s
    /\ terminalRes' = isTerminalStatus(s)
    /\ UNCHANGED <<sdkStatus, mapped>>

-----------------------------------------------------------------------------
(* waitForIncomingFunds: arkadeBitcoin.ts 214-278 *)

\* coins the wallet may report (ExtendedCoin / ExtendedVirtualCoin: txid, vout, value)
CoinPool ==
    {[txid |-> "aa", vout |-> 0, value |-> 1000],
     [txid |-> "aa", vout |-> 1, value |-> 546],
     [txid |-> "bb", vout |-> 0, value |-> 21000]}

CoinLists == UNION {[1..n -> CoinPool] : n \in 0..MaxCoins}

SpentLists == {<<>>, <<[txid |-> "cc", vout |-> 7, value |-> 330]>>}

\* IncomingFunds: { type: "utxo", coins } | { type: "vtxo", newVtxos, spentVtxos }
IncomingFundsInputs ==
    {[type |-> "utxo", coins |-> cs, newVtxos |-> <<>>, spentVtxos |-> <<>>] :
        cs \in CoinLists}
    \cup
    {[type |-> "vtxo", coins |-> <<>>, newVtxos |-> cs, spentVtxos |-> sp] :
        cs \in CoinLists, sp \in SpentLists}

NoFunds == [type |-> "none", coins |-> <<>>, newVtxos |-> <<>>, spentVtxos |-> <<>>]
NoEvent == [type |-> "none", amount |-> 0, ids |-> <<>>]

\* new Error("Timeout waiting for incoming funds")
TimeoutError == "Timeout waiting for incoming funds"

\* errors the wallet's subscription setup may raise
SetupErrors == {"subscription failed", "wallet is locked"}

\* the timeoutMs argument: undefined, or a number of milliseconds
TimeoutInputs == {<<>>, <<0>>, <<30000>>}

WaitIdle ==
    /\ wfPc = "idle"
    /\ timeoutMs = <<>>
    /\ settled = FALSE
    /\ stopSubscription = "undefined"
    /\ timeoutId = "undefined"
    /\ timer = "none"
    /\ fundsPromise = [state |-> "pending", funds |-> NoFunds, error |-> ""]
    /\ setup = [state |-> "none", error |-> ""]
    /\ microtasks = <<>>
    /\ timerTask = FALSE
    /\ unsubscribed = 0
    /\ notified = 0
    /\ arrivals = 0
    /\ settleLog = <<>>
    /\ outcome = [kind |-> "none", event |-> NoEvent, error |-> ""]

\* a promise settles once: resolve() on a settled promise changes nothing
Resolve(p, funds) ==
    IF p.state = "pending"
    THEN [state |-> "fulfilled", funds |-> funds, error |-> ""]
    ELSE p

\* reject() on a settled promise changes nothing
Reject(p, error) ==
    IF p.state = "pending"
    THEN [state |-> "rejected", funds |-> NoFunds, error |-> error]
    ELSE p

\* the reaction of `await fundsPromise` is queued when fundsPromise settles
QueueContinuation(q, before, after) ==
    IF before.state = "pending" /\ after.state # "pending"
    THEN Append(q, "continuation")
    ELSE q

\* coins.reduce((sum, coin) => sum + coin.value, 0)
RECURSIVE Reduce(_, _)
Reduce(coins, sum) ==
    IF coins = <<>> THEN sum ELSE Reduce(Tail(coins), sum + Head(coins).value)

\* `${coin.txid}:${coin.vout}`
CoinId(coin) == coin.txid \o ":" \o ToString(coin.vout)

\* coins.map((coin) => `${coin.txid}:${coin.vout}`)
MapIds(coins) == [i \in 1..Len(coins) |-> CoinId(coins[i])]

\* the event built from the vtxos the notification lists as spent
BuildEventFromSpent(result) ==
    IF result.type = "utxo"
    THEN [type |-> "utxo", amount |-> Reduce(result.coins, 0),
          ids |-> MapIds(result.coins)]
    ELSE [type |-> "vtxo", amount |-> Reduce(result.spentVtxos, 0),
          ids |-> MapIds(result.spentVtxos)]

\* if (result.type === "utxo") { return {...} } else { return {...} }
BuildEvent(result) ==
    IF result.type = "utxo"
    THEN [type |-> "utxo", amount |-> Reduce(result.coins, 0),
          ids |-> MapIds(result.coins)]
    ELSE [type |-> "vtxo", amount |-> Reduce(result.newVtxos, 0),
          ids |-> MapIds(result.newVtxos)]

\* The call: the executor of fundsPromise runs (notifyIncomingFunds is called
\* and returns a pending promise, the timer is armed when timeoutMs is given),
\* then the function suspends at `await fundsPromise`.
Call(t) ==
    /\ wfPc = "idle"
    /\ wfPc' = "awaiting"
    /\ timeoutMs' = t
    /\ setup' = [state |-> "pending", error |-> ""]
    /\ timeoutId' = IF t # <<>> THEN "timer" ELSE "undefined"
    /\ timer' = IF t # <<>> THEN "armed" ELSE "none"
    /\ UNCHANGED <<settled, stopSubscription, fundsPromise, microtasks,
                   timerTask, unsubscribed, notified, arrivals, settleLog,
                   outcome>>

\* The wallet runs (a task or a microtask of its own), never inside the
\* task of the timer callback: that task starts with an empty microtask
\* queue and calls no wallet code before the queue is drained.
WalletRuns == wfPc # "idle" /\ ~timerTask

\* the wallet fulfils the promise of notifyIncomingFunds with the stop function
WalletResolveSetup ==
    /\ WalletRuns
    /\ setup.state = "pending"
    /\ setup' = [state |-> "resolved", error |-> ""]
    /\ microtasks' = Append(microtasks, "then")
    /\ UNCHANGED <<wfPc, timeoutMs, settled, stopSubscription, timeoutId,
                   timer, fundsPromise, timerTask, unsubscribed, notified,
                   arrivals, settleLog, outcome>>

\* the wallet rejects the promise of notifyIncomingFunds; the .then() without
\* a rejection handler passes the rejection on to .catch() one microtask later
WalletRejectSetup(error) ==
    /\ WalletRuns
    /\ setup.state = "pending"
    /\ setup' = [state |-> "rejected", error |-> error]
    /\ microtasks' = Append(microtasks, "passRejection")
    /\ UNCHANGED <<wfPc, timeoutMs, settled, stopSubscription, timeoutId,
                   timer, fundsPromise, timerTask, unsubscribed, notified,
                   arrivals, settleLog, outcome>>

\* the funds callback without its settled guard
NotifyCallbackUnguarded(funds) ==
    /\ settled' = TRUE
    /\ fundsPromise' = Resolve(fundsPromise, funds)
    /\ settleLog' = Append(settleLog, [by |-> "notification", funds |-> funds, error |-> ""])
    /\ microtasks' = QueueContinuation(microtasks, fundsPromise, fundsPromise')

\* (funds) => { if (settled) { return; } settled = true; resolve(funds); }
NotifyCallback(funds) ==
    IF settled
    THEN UNCHANGED <<settled, fundsPromise, settleLog, microtasks>>
    ELSE /\ settled' = TRUE
         /\ fundsPromise' = Resolve(fundsPromise, funds)
         /\ settleLog' = Append(settleLog, [by |-> "notification", funds |-> funds, error |-> ""])
         /\ microtasks' = QueueContinuation(microtasks, fundsPromise, fundsPromise')

\* the wallet invokes the funds callback: at any time after the call, until
\* the subscription is stopped or its setup has failed
WalletNotify(funds) ==
    /\ WalletRuns
    /\ setup.state # "rejected"
    /\ unsubscribed = 0
    /\ notified < MaxNotifies
    /\ notified' = notified + 1
    /\ arrivals' = arrivals + 1
    /\ NotifyCallback(funds)
    /\ UNCHANGED <<wfPc, timeoutMs, stopSubscription, timeoutId, timer, setup,
                   timerTask, unsubscribed, outcome>>

\* the .then handler that only stores the stop function
ThenHandlerStoreOnly ==
    /\ stopSubscription' = "stop"
    /\ UNCHANGED unsubscribed

\* (stop) => { stopSubscription = stop; if (settled) { stop(); } }
ThenHandler ==
    /\ stopSubscription' = "stop"
    /\ unsubscribed' = IF settled THEN unsubscribed + 1 ELSE unsubscribed

\* the microtask of the .then handler
RunThen ==
    /\ microtasks # <<>>
    /\ Head(microtasks) = "then"
    /\ microtasks' = Tail(microtasks)
    /\ timerTask' = (timerTask /\ microtasks' # <<>>)
    /\ ThenHandler
    /\ UNCHANGED <<wfPc, timeoutMs, settled, timeoutId, timer, fundsPromise,
                   setup, notified, arrivals, settleLog, outcome>>

\* the microtask in which .then() hands the rejection to .catch()
RunPassRejection ==
    /\ microtasks # <<>>
    /\ Head(microtasks) = "passRejection"
    /\ microtasks' = Append(Tail(microtasks), "catch")
    /\ UNCHANGED <<wfPc, timeoutMs, settled, stopSubscription, timeoutId,
                   timer, fundsPromise, setup, timerTask, unsubscribed,
                   notified, arrivals, settleLog, outcome>>

\* the .catch handler rejecting with the timeout error instead of the error it got
CatchHandlerWrongError(q, error) ==
    IF settled
    THEN /\ microtasks' = q
         /\ UNCHANGED <<settled, fundsPromise, settleLog>>
    ELSE /\ settled' = TRUE
         /\ fundsPromise' = Reject(fundsPromise, TimeoutError)
         /\ settleLog' = Append(settleLog, [by |-> "setup", funds |-> NoFunds, error |-> TimeoutError])
         /\ microtasks' = QueueContinuation(q, fundsPromise, fundsPromise')

\* (error) => { if (settled) { return; } settled = true; reject(error); }
\* q is the microtask queue behind this handler's own microtask
CatchHandler(q, error) ==
    IF settled
    THEN /\ microtasks' = q
         /\ UNCHANGED <<settled, fundsPromise, settleLog>>
    ELSE /\ settled' = TRUE
         /\ fundsPromise' = Reject(fundsPromise, error)
         /\ settleLog' = Append(settleLog, [by |-> "setup", funds |-> NoFunds, error |-> error])
         /\ microtasks' = QueueContinuation(q, fundsPromise, fundsPromise')

\* the microtask of the .catch handler
RunCatch ==
    /\ microtasks # <<>>
    /\ Head(microtasks) = "catch"
    /\ arrivals' = arrivals + 1
    /\ CatchHandler(Tail(microtasks), setup.error)
    /\ UNCHANGED <<wfPc, timeoutMs, stopSubscription, timeoutId, timer, setup,
                   timerTask, unsubscribed, notified, outcome>>

\* the timer callback that sets settled and rejects nothing
TimeoutCallbackSilent ==
    IF settled
    THEN UNCHANGED <<settled, fundsPromise, settleLog, microtasks>>
    ELSE /\ settled' = TRUE
         /\ UNCHANGED <<fundsPromise, settleLog, microtasks>>

\* () => { if (settled) { return; } settled = true; reject(new Error("Timeout ...")); }
TimeoutCallback ==
    IF settled
    THEN UNCHANGED <<settled, fundsPromise, settleLog, microtasks>>
    ELSE /\ settled' = TRUE
         /\ fundsPromise' = Reject(fundsPromise, TimeoutError)
         /\ settleLog' = Append(settleLog, [by |-> "timer", funds |-> NoFunds, error |-> TimeoutError])
         /\ microtasks' = QueueContinuation(microtasks, fundsPromise, fundsPromise')

\* The timer expires: its callback runs as a task of its own, which starts
\* only when the microtask queue is empty.
TimerFire ==
    /\ timer = "armed"
    /\ microtasks = <<>>
    /\ timer' = "fired"
    /\ arrivals' = arrivals + 1
    /\ TimeoutCallback
    /\ timerTask' = (microtasks' # <<>>)
    /\ UNCHANGED <<wfPc, timeoutMs, stopSubscription, timeoutId, setup,
                   unsubscribed, notified, outcome>>

\* clearTimeout(timeoutId): a timer that is armed is cancelled
ClearTimeout(t) == IF t = "armed" THEN "cleared" ELSE t

\* the finally block without clearTimeout
FinallyKeepsTimer ==
    /\ timer' = timer
    /\ unsubscribed' = IF stopSubscription # "undefined"
                       THEN unsubscribed + 1 ELSE unsubscribed

\* the finally block without the call of stopSubscription
FinallyKeepsSubscription ==
    /\ timer' = IF timeoutId # "undefined" THEN ClearTimeout(timer) ELSE timer
    /\ unsubscribed' = unsubscribed

\* finally { if (timeoutId) { clearTimeout(timeoutId); }
\*           if (stopSubscription) { stopSubscription(); } }
Finally ==
    /\ timer' = IF timeoutId # "undefined" THEN ClearTimeout(timer) ELSE timer
    /\ unsubscribed' = IF stopSubscription # "undefined"
                       THEN unsubscribed + 1 ELSE unsubscribed

\* The function resumes after `await fundsPromise`: the finally block runs,
\* then the function returns the event built from the funds, or throws the
\* rejection of fundsPromise.
Continuation ==
    /\ microtasks # <<>>
    /\ Head(microtasks) = "continuation"
    /\ wfPc = "awaiting"
    /\ microtasks' = Tail(microtasks)
    /\ timerTask' = (timerTask /\ microtasks' # <<>>)
    /\ Finally
    /\ outcome' = IF fundsPromise.state = "fulfilled"
                  THEN [kind |-> "returned", event |-> BuildEvent(fundsPromise.funds),
                        error |-> ""]
                  ELSE [kind |-> "threw", event |-> NoEvent,
                        error |-> fundsPromise.error]
    /\ wfPc' = "done"
    /\ UNCHANGED <<timeoutMs, settled, stopSubscription, timeoutId,
                   fundsPromise, setup, notified, arrivals, settleLog>>

-----------------------------------------------------------------------------
(* LendaSwapSkill: lendaswap.ts 179-708.  One operation of the skill is one *)
(* action: the operations of an instance are used one after the other, and  *)
(* the caller takes the result of a call before making the next.            *)
(* The remote service is the environment: what it answers to a call (a     *)
(* token listing, a created swap, the current status of a swap, a failure) *)
(* is an input of the action.                                              *)

\* const EVM_CHAIN_IDS: Record<EvmChain, number>
EVM_CHAIN_IDS == [polygon |-> 137, ethereum |-> 1, arbitrum |-> 42161]

\* const EVM_CHAIN_MAP: Record<EvmChain, Chain>
EVM_CHAIN_MAP == [polygon |-> "137", ethereum |-> "1", arbitrum |-> "42161"]

\* BTC_ARKADE_INFO, and the EVM tokens the remote service may list
BtcArkade == [token_id |-> "btc", symbol |-> "BTC", chain |-> "Arkade"]
UsdcPol == [token_id |-> "0xusdc137", symbol |-> "USDC", chain |-> "137"]
UsdcEth == [token_id |-> "0xusdc1", symbol |-> "USDC", chain |-> "1"]
UsdtArb == [token_id |-> "0xusdt42161", symbol |-> "USDT", chain |-> "42161"]
UsdtPol == [token_id |-> "0xusdt137", symbol |-> "USDT", chain |-> "137"]
NoToken == [token_id |-> "", symbol |-> "", chain |-> ""]

\* what client.getTokens() may answer: { btc_tokens, evm_tokens }
TokenListings ==
    {[ok |-> TRUE, btc_tokens |-> <<BtcArkade>>,
      evm_tokens |-> <<UsdcPol, UsdcEth>>],
     [ok |-> TRUE, btc_tokens |-> <<BtcArkade>>,
      evm_tokens |-> <<UsdtPol, UsdcPol>>]}

\* getTokens answers with a listing, or fails
NoListing == [ok |-> FALSE, btc_tokens |-> <<>>, evm_tokens |-> <<>>]

\* the answers a resolution may get: none is asked for once the cache is built
ListingAnswers == IF tokenCache.null THEN TokenListings \cup {NoListing} ELSE {NoListing}

\* String.prototype.toLowerCase on the symbols of the listings
toLowerCase(s) ==
    CASE s = "USDC" -> "usdc"
      [] s = "USDT" -> "usdt"
      [] s = "USDT0" -> "usdt0"
      [] s = "BTC" -> "btc"
      [] OTHER -> s

\* String.prototype.toUpperCase on the symbols of the listings and of the token names
toUpperCase(s) ==
    CASE s = "usdc" -> "USDC"
      [] s = "usdt" -> "USDT"
      [] s = "usdt0" -> "USDT0"
      [] s = "btc" -> "BTC"
      [] OTHER -> s

\* chainNames[token.chain] ?? token.chain
chainNames(chain) ==
    CASE chain = "137" -> "pol"
      [] chain = "1" -> "eth"
      [] chain = "42161" -> "arb"
      [] chain = "Arkade" -> "arkade"
      [] chain = "Lightning" -> "lightning"
      [] chain = "Bitcoin" -> "btc"
      [] OTHER -> chain

\* function tokenInfoToString(token: TokenInfo): string
tokenInfoToString(token) ==
    IF token.token_id = "btc"
    THEN "btc_" \o chainNames(token.chain)
    ELSE toLowerCase(token.symbol) \o "_" \o chainNames(token.chain)

\* token.replace(/_(?:pol|eth|arb)$/, ""), on the token names
stripChainSuffix(token) ==
    CASE token \in {"usdc_pol", "usdc_eth", "usdc_arb"} -> "usdc"
      [] token \in {"usdt_eth", "usdt_arb", "usdt_pol"} -> "usdt"
      [] token = "usdt0_pol" -> "usdt0"
      [] OTHER -> token

\* Map.prototype.set: the value of a key already present is replaced in
\* place, a new key is added at the end
RECURSIVE MapSet(_, _, _)
MapSet(entries, key, value) ==
    IF entries = <<>> THEN <<[key |-> key, value |-> value]>>
    ELSE IF Head(entries).key = key
         THEN <<[key |-> key, value |-> value]>> \o Tail(entries)
         ELSE <<Head(entries)>> \o MapSet(Tail(entries), key, value)

\* Map.prototype.get: the value of the key, or NoToken (undefined)
RECURSIVE MapGet(_, _)
MapGet(entries, key) ==
    IF entries = <<>> THEN NoToken
    ELSE IF Head(entries).key = key THEN Head(entries).value
         ELSE MapGet(Tail(entries), key)

\* for (const t of [...]) { this.tokenCache.set(tokenInfoToString(t), t); }
RECURSIVE FillCache(_, _)
FillCache(tokens, entries) ==
    IF tokens = <<>> THEN entries
    ELSE FillCache(Tail(tokens),
                   MapSet(entries, tokenInfoToString(Head(tokens)), Head(tokens)))

\* the cache built from the answer of getTokens
CacheOf(listing) == FillCache(listing.btc_tokens \o listing.evm_tokens, <<>>)

\* for (const t of this.tokenCache.values()) { if (t.chain === sdkChain &&
\*   t.symbol.toUpperCase() === symbol) return t; }
RECURSIVE FallbackScan(_, _, _)
FallbackScan(entries, sdkChain, symbol) ==
    IF entries = <<>> THEN NoToken
    ELSE IF Head(entries).value.chain = sdkChain
            /\ toUpperCase(Head(entries).value.symbol) = symbol
         THEN Head(entries).value
         ELSE FallbackScan(Tail(entries), sdkChain, symbol)

\* resolveEvmToken without the fallback scan
ResolveInCacheExactOnly(entries, token, chain) == MapGet(entries, token)

\* resolveEvmToken on a populated cache: the exact key, then the scan by
\* symbol and chain; NoToken stands for the not-found error
ResolveInCache(entries, token, chain) ==
    LET info == MapGet(entries, token)
    IN  IF info # NoToken THEN info
        ELSE FallbackScan(entries, EVM_CHAIN_MAP[chain],
                          toUpperCase(stripChainSuffix(token)))

\* The statuses the remote service reports.  In one run it reports the
\* statuses of one vocabulary; together the vocabularies hold a status of
\* every normalized class and strings outside the SDK vocabulary.
Vocabularies ==
    {{"pending", "clientfunded", "serverredeemed"},
     {"some_future_status", "serverfunded", "clientfundedtoolate"},
     {"funded", "clientrefunded", "clientinvalidfunded"}}

\* (token, chain) arguments of the swap operations
TokenArgs ==
    {<<"usdc_pol", "polygon">>, <<"usdc_eth", "polygon">>,
     <<"usdt_arb", "arbitrum">>}

NoResult == [op |-> "none", kind |-> "none", swaps |-> <<>>, error |-> ""]

SwapStart ==
    /\ client = "null"
    /\ tokenCache = [null |-> TRUE, entries |-> <<>>]
    /\ storage = <<>>
    /\ now = 0
    /\ opResult = NoResult
    /\ calls = <<>>

\* the initial state, the remote service having any one of the vocabularies
SwapInit == SwapStart /\ vocabulary \in Vocabularies

\* the skill unused
SwapIdle == SwapStart /\ vocabulary = {}

\* a remote or wallet call the operation made
CallOf(api, arg) == [api |-> api, arg |-> arg]

\* the operation threw
Threw(op, error) == [op |-> op, kind |-> "threw", swaps |-> <<>>, error |-> error]

\* the operation returned these swap values
Returned(op, swaps) == [op |-> op, kind |-> "returned", swaps |-> swaps, error |-> ""]

\* the direction with only the swaps towards Arkade counted as EVM-funded
DirectionOfArkadeOnly(direction) ==
    IF direction = "evm_to_arkade" THEN "stablecoin_to_btc" ELSE "btc_to_stablecoin"

\* the direction of a swap as the skill reports it
DirectionOf(direction) ==
    IF direction = "evm_to_arkade" \/ direction = "evm_to_bitcoin"
    THEN "stablecoin_to_btc"
    ELSE "btc_to_stablecoin"

\* status === "completed" ? new Date() : undefined: the time of the
\* observation; -1 stands for undefined
CompletedAt(status, time) == IF status = "completed" THEN time ELSE -1

\* private storedSwapToInfo(stored): StablecoinSwapInfo
storedSwapToInfo(stored) ==
    [id |-> stored.swapId,
     direction |-> DirectionOf(stored.direction),
     status |-> mapSwapStatus(stored.status),
     sourceToken |-> tokenInfoToString(stored.source_token),
     targetToken |-> tokenInfoToString(stored.target_token),
     sourceAmount |-> stored.source_amount,
     targetAmount |-> stored.target_amount,
     createdAt |-> stored.created_at,
     completedAt |-> CompletedAt(mapSwapStatus(stored.status), now)]

\* getSwapStatus reporting a swap the remote service has pending as funded
SwapInfoOfOptimistic(swapId, data) ==
    [id |-> swapId,
     direction |-> DirectionOf(data.direction),
     status |-> IF mapSwapStatus(data.status) = "pending" THEN "funded"
                ELSE mapSwapStatus(data.status),
     sourceToken |-> tokenInfoToString(data.source_token),
     targetToken |-> tokenInfoToString(data.target_token),
     sourceAmount |-> data.source_amount,
     targetAmount |-> data.target_amount,
     createdAt |-> data.created_at,
     completedAt |-> CompletedAt(mapSwapStatus(data.status), now)]

\* the StablecoinSwapInfo getSwapStatus builds from the remote data
SwapInfoOf(swapId, data) ==
    [id |-> swapId,
     direction |-> DirectionOf(data.direction),
     status |-> mapSwapStatus(data.status),
     sourceToken |-> tokenInfoToString(data.source_token),
     targetToken |-> tokenInfoToString(data.target_token),
     sourceAmount |-> data.source_amount,
     targetAmount |-> data.target_amount,
     createdAt |-> data.created_at,
     completedAt |-> CompletedAt(mapSwapStatus(data.status), now)]

\* the swap the remote service creates and the SDK stores; the remote
\* service stamps the swaps it creates in the order of their creation, and
\* gives each a funding address of its own
NewSwap(direction, source, target, created) ==
    [swapId |-> Len(storage) + 1,
     status |-> created.status,
     direction |-> direction,
     source_token |-> source,
     target_token |-> target,
     source_amount |-> created.source_amount,
     target_amount |-> 97,
     created_at |-> Len(storage) + 1,
     btc_vhtlc_address |-> "ark1vhtlc" \o ToString(Len(storage) + 1)]

\* resolveEvmToken asking for the listing on every call
ResolveStepAlwaysFetch(token, chain, listing) ==
    LET cache == IF listing.ok
                 THEN [null |-> FALSE, entries |-> CacheOf(listing)]
                 ELSE tokenCache
    IN  [calls |-> <<CallOf("getTokens", "")>>,
         failed |-> ~listing.ok,
         cache |-> cache,
         token |-> IF cache.null THEN NoToken
                   ELSE ResolveInCache(cache.entries, token, chain)]

\* resolveEvmToken storing the token the fallback scan found under the key
\* asked for
ResolveStepMemoizing(token, chain, listing) ==
    LET fetch == tokenCache.null
        cache == IF fetch /\ listing.ok
                 THEN [null |-> FALSE, entries |-> CacheOf(listing)]
                 ELSE tokenCache
        found == IF cache.null THEN NoToken
                 ELSE ResolveInCache(cache.entries, token, chain)
    IN  [calls |-> IF fetch THEN <<CallOf("getTokens", "")>> ELSE <<>>,
         failed |-> fetch /\ ~listing.ok,
         cache |-> IF found = NoToken THEN cache
                   ELSE [null |-> FALSE, entries |-> MapSet(cache.entries, token, found)],
         token |-> found]

\* The steps every swap and quote operation starts with: getClient(), then
\* resolveEvmToken(token, chain).  listing is the answer of getTokens, which
\* is asked for only while this.tokenCache is null.  token = NoToken stands
\* for the not-found error.
ResolveStep(token, chain, listing) ==
    LET fetch == tokenCache.null
        cache == IF fetch /\ listing.ok
                 THEN [null |-> FALSE, entries |-> CacheOf(listing)]
                 ELSE tokenCache
    IN  [calls |-> IF fetch THEN <<CallOf("getTokens", "")>> ELSE <<>>,
         failed |-> fetch /\ ~listing.ok,
         cache |-> cache,
         token |-> IF cache.null THEN NoToken
                   ELSE ResolveInCache(cache.entries, token, chain)]

\* `Token ${token} on ${chain} not found in available tokens`
NotFoundError(token, chain) ==
    "Token " \o token \o " on " \o chain \o " not found in available tokens"

\* the remote service refuses to create the swap
NoSwapCreated == [ok |-> FALSE, status |-> "", source_amount |-> 0]

\* what the remote service answers to a swap creation: the created swap's
\* status and source amount, or a failure
CreateAnswers ==
    {[ok |-> TRUE, status |-> s, source_amount |-> 100000] : s \in vocabulary}
        \cup {NoSwapCreated}

\* the call client.createArkadeToEvmSwapGeneric / createEvmToArkadeSwapGeneric
\* ({ targetAddress, tokenAddress, evmChainId, sourceAmount, ... });
\* sourceAmount 0 stands for an amount not given
CreateCall(api, tokenAddress, evmChainId, sourceAmount, targetAddress) ==
    [api |-> api, arg |-> tokenAddress, evmChainId |-> evmChainId,
     sourceAmount |-> sourceAmount, targetAddress |-> targetAddress]

\* the call this.wallet.sendBitcoin({ address, amount }), with the
\* transaction id it returned ("" when it failed)
PaymentCall(address, amount, txid) ==
    [api |-> "sendBitcoin", arg |-> address, amount |-> amount, returned |-> txid]

\* the payment for the amount the caller asked for
PaymentOfAskedAmount(resp, sourceAmount, paid) ==
    PaymentCall(resp.btc_vhtlc_address, sourceAmount, paid.txid)

\* sendBitcoin({ address: resp.btc_vhtlc_address, amount: resp.source_amount })
PaymentOf(resp, sourceAmount, paid) ==
    PaymentCall(resp.btc_vhtlc_address, resp.source_amount, paid.txid)

\* the payment made again when it failed
PaymentsRetried(send, paid) == IF paid.ok THEN <<send>> ELSE <<send, send>>

\* the wallet calls of swapBtcToStablecoin after the creation: the one
\* payment, whatever it answers
Payments(send, paid) == <<send>>

\* what the remote service answers to a swap creation when its source amount
\* may differ from the amount asked for
WideCreateAnswers ==
    {[ok |-> TRUE, status |-> s, source_amount |-> a] :
        s \in vocabulary, a \in {100000, 100250}} \cup {NoSwapCreated}

\* what wallet.sendBitcoin answers: a transaction id, or a failure
PayAnswers == {[ok |-> TRUE, txid |-> "txid-funding"], [ok |-> FALSE, txid |-> ""]}

\* what client.getSwap answers: the swap's current status, or a failure
StatusAnswers ==
    {[ok |-> TRUE, status |-> s] : s \in vocabulary} \cup {[ok |-> FALSE, status |-> ""]}

\* the stored swaps getPendingSwaps asks the remote service about
Refetched == {i \in 1..Len(storage) : ~isTerminalStatus(mapSwapStatus(storage[i].status))}

\* swapBtcToStablecoin returning the status the remote service reported
SwapResultBtcRemoteStatus(resp, fundingTxid) ==
    [swapId |-> resp.swapId,
     status |-> mapSwapStatus(resp.status),
     sourceAmount |-> resp.source_amount,
     targetAmount |-> resp.target_amount,
     fundingTxid |-> fundingTxid]

\* return { swapId: resp.id, status: "funded", ..., fundingTxid }
SwapResultBtc(resp, fundingTxid) ==
    [swapId |-> resp.swapId,
     status |-> "funded",
     sourceAmount |-> resp.source_amount,
     targetAmount |-> resp.target_amount,
     fundingTxid |-> fundingTxid]

\* swapStablecoinToBtc returning "funded" as the other direction does
SwapResultEvmFunded(resp) ==
    [swapId |-> resp.swapId,
     status |-> "funded",
     sourceAmount |-> resp.source_amount,
     targetAmount |-> resp.target_amount,
     fundingTxid |-> ""]

\* return { swapId: resp.id, status: mapSwapStatus(resp.status), ... }
SwapResultEvm(resp) ==
    [swapId |-> resp.swapId,
     status |-> mapSwapStatus(resp.status),
     sourceAmount |-> resp.source_amount,
     targetAmount |-> resp.target_amount,
     fundingTxid |-> ""]

\* async swapBtcToStablecoin(params): getClient, resolveEvmToken,
\* createArkadeToEvmSwapGeneric, wallet.sendBitcoin, return
swapBtcToStablecoin(token, chain, sourceAmount, listing, created, paid) ==
    LET r == ResolveStep(token, chain, listing)
        resp == NewSwap("arkade_to_evm", BtcArkade, r.token, created)
        create == CreateCall("createArkadeToEvmSwapGeneric", r.token.token_id,
                             EVM_CHAIN_IDS[chain], sourceAmount, "0xcaller")
        send == PaymentOf(resp, sourceAmount, paid)
    IN  /\ opResult = NoResult
        /\ Len(storage) < MaxSwaps
        /\ client' = "built"
        /\ tokenCache' = r.cache
        /\ IF r.failed
           THEN /\ opResult' = Threw("swapBtcToStablecoin", "getTokens failed")
                /\ calls' = r.calls
                /\ UNCHANGED storage
           ELSE IF r.token = NoToken
           THEN /\ opResult' = Threw("swapBtcToStablecoin", NotFoundError(token, chain))
                /\ calls' = r.calls
                /\ UNCHANGED storage
           ELSE IF ~created.ok
           THEN /\ opResult' = Threw("swapBtcToStablecoin", "create failed")
                /\ calls' = r.calls \o <<create>>
                /\ UNCHANGED storage
           ELSE /\ storage' = Append(storage, resp)
                /\ calls' = r.calls \o <<create>> \o Payments(send, paid)
                /\ opResult' = IF paid.ok
                             THEN Returned("swapBtcToStablecoin",
                                           <<SwapResultBtc(resp, paid.txid)>>)
                             ELSE Threw("swapBtcToStablecoin", "sendBitcoin failed")
        /\ UNCHANGED <<now, vocabulary>>

\* async swapStablecoinToBtc(params): getClient, the destination address
\* (params.targetAddress || wallet.getAddress()), resolveEvmToken,
\* createEvmToArkadeSwapGeneric, return
swapStablecoinToBtc(token, chain, targetAddress, addressOk, listing, created) ==
    LET r == ResolveStep(token, chain, listing)
        resp == NewSwap("evm_to_arkade", r.token, BtcArkade, created)
        address == IF targetAddress # "" THEN <<>> ELSE <<CallOf("getAddress", "")>>
        arkAddress == IF targetAddress # "" THEN targetAddress ELSE "ark1wallet"
        create == CreateCall("createEvmToArkadeSwapGeneric", r.token.token_id,
                             EVM_CHAIN_IDS[chain], 100, arkAddress)
    IN  /\ opResult = NoResult
        /\ Len(storage) < MaxSwaps
        /\ client' = "built"
        /\ IF targetAddress = "" /\ ~addressOk
           THEN /\ opResult' = Threw("swapStablecoinToBtc", "getAddress failed")
                /\ calls' = address
                /\ UNCHANGED <<storage, tokenCache>>
           ELSE /\ tokenCache' = r.cache
                /\ IF r.failed
                   THEN /\ opResult' = Threw("swapStablecoinToBtc", "getTokens failed")
                        /\ calls' = address \o r.calls
                        /\ UNCHANGED storage
                   ELSE IF r.token = NoToken
                   THEN /\ opResult' = Threw("swapStablecoinToBtc", NotFoundError(token, chain))
                        /\ calls' = address \o r.calls
                        /\ UNCHANGED storage
                   ELSE IF ~created.ok
                   THEN /\ opResult' = Threw("swapStablecoinToBtc", "create failed")
                        /\ calls' = address \o r.calls \o <<create>>
                        /\ UNCHANGED storage
                   ELSE /\ storage' = Append(storage, resp)
                        /\ calls' = address \o r.calls \o <<create>>
                        /\ opResult' = Returned("swapStablecoinToBtc", <<SwapResultEvm(resp)>>)
        /\ UNCHANGED <<now, vocabulary>>

\* async getSwapStatus(swapId): getClient, getSwap(swapId, { updateStorage:
\* true }), return the info built from the remote data
getSwapStatus(i, answer) ==
    /\ opResult = NoResult
    /\ i \in 1..Len(storage)
    /\ client' = "built"
    /\ calls' = <<CallOf("getSwap", ToString(storage[i].swapId))>>
    /\ IF answer.ok
       THEN /\ storage' = [storage EXCEPT ![i].status = answer.status]
            /\ opResult' = Returned("getSwapStatus",
                                  <<SwapInfoOf(storage[i].swapId, storage'[i])>>)
       ELSE /\ opResult' = Threw("getSwapStatus", "getSwap failed")
            /\ UNCHANGED storage
    /\ UNCHANGED <<tokenCache, now, vocabulary>>

\* the loop of getPendingSwaps leaving out the swaps whose re-fetch failed
RECURSIVE PendingLoopSkipFailed(_, _, _, _)
PendingLoopSkipFailed(stored, answers, i, acc) ==
    IF i > Len(stored) THEN acc
    ELSE IF isTerminalStatus(mapSwapStatus(stored[i].status))
         THEN PendingLoopSkipFailed(stored, answers, i + 1, acc)
         ELSE LET fresh == [stored[i] EXCEPT !.status = answers[i].status]
                  call == [api |-> "getSwap", arg |-> ToString(stored[i].swapId),
                           returned |-> answers[i].status]
              IN  IF answers[i].ok
                  THEN PendingLoopSkipFailed(stored, answers, i + 1,
                         [pending |-> Append(acc.pending, SwapInfoOf(stored[i].swapId, fresh)),
                          calls |-> Append(acc.calls, call),
                          store |-> [acc.store EXCEPT ![i] = fresh]])
                  ELSE PendingLoopSkipFailed(stored, answers, i + 1,
                         [pending |-> acc.pending,
                          calls |-> Append(acc.calls, call),
                          store |-> acc.store])

\* the loop of getPendingSwaps from the i-th stored swap on: stored is the
\* list listAllSwaps returned, answers[i] what getSwap answers for the i-th
\* swap ("" returned stands for a getSwap that failed), store the swap
\* storage as updated so far.  Gives the infos pushed, the calls made and
\* the storage at the end.
RECURSIVE PendingLoop(_, _, _, _)
PendingLoop(stored, answers, i, acc) ==
    IF i > Len(stored) THEN acc
    ELSE IF isTerminalStatus(mapSwapStatus(stored[i].status))
         THEN PendingLoop(stored, answers, i + 1, acc)
         ELSE LET fresh == [stored[i] EXCEPT !.status = answers[i].status]
                  call == [api |-> "getSwap", arg |-> ToString(stored[i].swapId),
                           returned |-> answers[i].status]
              IN  IF answers[i].ok
                  THEN PendingLoop(stored, answers, i + 1,
                         [pending |-> Append(acc.pending, SwapInfoOf(stored[i].swapId, fresh)),
                          calls |-> Append(acc.calls, call),
                          store |-> [acc.store EXCEPT ![i] = fresh]])
                  ELSE PendingLoop(stored, answers, i + 1,
                         [pending |-> Append(acc.pending, storedSwapToInfo(stored[i])),
                          calls |-> Append(acc.calls, call),
                          store |-> acc.store])

\* async getPendingSwaps(): getClient, listAllSwaps, the loop, return pending
getPendingSwaps(answers) ==
    LET end == PendingLoop(storage, answers, 1,
                   [pending |-> <<>>, calls |-> <<CallOf("listAllSwaps", "")>>,
                    store |-> storage])
    IN  /\ opResult = NoResult
        /\ client' = "built"
        /\ storage' = end.store
        /\ calls' = end.calls
        /\ opResult' = Returned("getPendingSwaps", end.pending)
        /\ UNCHANGED <<tokenCache, now, vocabulary>>

\* Array.prototype.sort with (a, b) => b.createdAt - a.createdAt: a stable
\* sort, later creation first.  Insert puts an element behind the elements
\* of the sorted list that do not sort after it.
RECURSIVE InsertByCreatedAt(_, _)
InsertByCreatedAt(sorted, info) ==
    IF sorted = <<>> THEN <<info>>
    ELSE IF Head(sorted).createdAt >= info.createdAt
         THEN <<Head(sorted)>> \o InsertByCreatedAt(Tail(sorted), info)
         ELSE <<info>> \o sorted

\* the history left in the order of the swap storage
SortByCreatedAtDescUnsorted(infos, sorted) == sorted \o infos

RECURSIVE SortByCreatedAtDesc(_, _)
SortByCreatedAtDesc(infos, sorted) ==
    IF infos = <<>> THEN sorted
    ELSE SortByCreatedAtDesc(Tail(infos), InsertByCreatedAt(sorted, Head(infos)))

\* async getSwapHistory(): getClient, listAllSwaps, map storedSwapToInfo, sort
getSwapHistory ==
    /\ opResult = NoResult
    /\ client' = "built"
    /\ calls' = <<CallOf("listAllSwaps", "")>>
    /\ opResult' = Returned("getSwapHistory",
                    SortByCreatedAtDesc([i \in 1..Len(storage) |-> storedSwapToInfo(storage[i])],
                                        <<>>))
    /\ UNCHANGED <<tokenCache, storage, now, vocabulary>>

\* the caller takes the result of the call
TakeResult ==
    /\ opResult # NoResult
    /\ opResult' = NoResult
    /\ calls' = <<>>
    /\ UNCHANGED <<client, tokenCache, storage, now, vocabulary>>

\* time passes
Tick ==
    /\ now < MaxClock
    /\ now' = now + 1
    /\ UNCHANGED <<client, tokenCache, storage, vocabulary, opResult, calls>>

-----------------------------------------------------------------------------
(* The numbers of the quote operations: lendaswap.ts 289-355.  A JavaScript *)
(* number is a fraction n/d in lowest terms, NaN, Infinity or -Infinity;    *)
(* the arithmetic is exact on the fractions and follows IEEE 754 on a zero  *)
(* divisor and on the three special values.                                 *)

Abs(a) == IF a < 0 THEN -a ELSE a

RECURSIVE GCD(_, _)
GCD(a, b) == IF b = 0 THEN a ELSE GCD(b, a % b)

\* the fraction n/d (d # 0) in lowest terms with a positive denominator
Num(n, d) ==
    LET g == GCD(Abs(n), Abs(d))
        s == IF d < 0 THEN -1 ELSE 1
    IN  [kind |-> "finite", n |-> s * (n \div g), d |-> s * (d \div g)]

NaN == [kind |-> "nan", n |-> 0, d |-> 1]
Infinity == [kind |-> "inf", n |-> 1, d |-> 1]
NegInfinity == [kind |-> "-inf", n |-> -1, d |-> 1]

\* the sign of a number that is not NaN: -1, 0 or 1
Sign(x) == IF x.n < 0 THEN -1 ELSE IF x.n > 0 THEN 1 ELSE 0

\* Infinity with a sign
Signed(s) == IF s < 0 THEN NegInfinity ELSE Infinity

\* x * y; the fractions are reduced crosswise before they are multiplied
NumMul(x, y) ==
    IF x.kind = "nan" \/ y.kind = "nan" THEN NaN
    ELSE IF x.kind # "finite" \/ y.kind # "finite"
         THEN IF Sign(x) = 0 \/ Sign(y) = 0 THEN NaN ELSE Signed(Sign(x) * Sign(y))
         ELSE LET a == Num(x.n, y.d)
                  b == Num(y.n, x.d)
              IN  Num(a.n * b.n, a.d * b.d)

\* x / y; a zero divisor is +0
NumDiv(x, y) ==
    IF x.kind = "nan" \/ y.kind = "nan" THEN NaN
    ELSE IF x.kind # "finite"
         THEN IF y.kind # "finite" THEN NaN
              ELSE Signed(Sign(x) * (IF Sign(y) < 0 THEN -1 ELSE 1))
         ELSE IF y.kind # "finite" THEN Num(0, 1)
         ELSE IF y.n = 0
              THEN IF x.n = 0 THEN NaN ELSE Signed(Sign(x))
              ELSE NumMul(x, Num(y.d, y.n))

\* x - y
NumSub(x, y) ==
    IF x.kind = "nan" \/ y.kind = "nan" THEN NaN
    ELSE IF x.kind # "finite"
         THEN IF y.kind = x.kind THEN NaN ELSE x
         ELSE IF y.kind # "finite" THEN Signed(-Sign(y))
         ELSE Num(x.n * y.d - y.n * x.d, x.d * y.d)

\* Math.floor(x)
MathFloor(x) == IF x.kind # "finite" THEN x ELSE Num(x.n \div x.d, 1)

\* Math.max(0, x) giving x
MathMax0Identity(x) == x

\* Math.max(0, x)
MathMax0(x) ==
    IF x.kind = "nan" THEN NaN
    ELSE IF x.kind = "inf" THEN Infinity
    ELSE IF x.kind = "-inf" \/ x.n < 0 THEN Num(0, 1)
    ELSE x

\* parseFloat on the exchange_rate strings of the remote quoter
parseFloat(s) ==
    CASE s = "0" -> Num(0, 1)
      [] s = "0.5" -> Num(1, 2)
      [] s = "97500" -> Num(97500, 1)
      [] s = "100000.0" -> Num(100000, 1)
      [] OTHER -> NaN

\* what the remote quoter may give as exchange_rate
RateStrings == {"", "0", "0.5", "97500", "100000.0"}

\* private chainFromToken(token: StablecoinToken): EvmChain
chainFromToken(token) ==
    CASE token \in {"usdc_pol", "usdt0_pol", "usdt_pol"} -> "polygon"
      [] token \in {"usdc_eth", "usdt_eth"} -> "ethereum"
      [] token \in {"usdc_arb", "usdt_arb"} -> "arbitrum"
      [] OTHER -> "polygon"

\* an operation returned a value that is not a swap
ReturnedValue(op, value) ==
    [op |-> op, kind |-> "returned", swaps |-> <<>>, error |-> "", value |-> value]

\* the amounts the remote service may report for a swap of this direction:
\* source_amount in sats and target_amount in token units for
\* btc_to_stablecoin, the other way round for stablecoin_to_btc; zero and
\* negative amounts, whole and fractional ones, and fee_sats zero or not
CreatedAmounts(direction) ==
    LET sats == {Num(-1, 1), Num(0, 1), Num(1000, 1), Num(100000, 1), Num(100000000, 1)}
        units == {Num(-1, 1), Num(0, 1), Num(1, 1), Num(100, 1), Num(195, 2)}
    IN  {[source_amount |-> s, target_amount |-> t, fee_sats |-> f] :
            s \in (IF direction = "btc_to_stablecoin" THEN sats ELSE units),
            t \in (IF direction = "btc_to_stablecoin" THEN units ELSE sats),
            f \in {Num(0, 1), Num(250, 1)}}

\* the exchange rate computed whenever the source amount is positive
exchangeRateSourceGuardOnly(direction, source_amount, target_amount) ==
    IF Sign(source_amount) > 0
    THEN IF direction = "btc_to_stablecoin"
         THEN NumDiv(target_amount, NumDiv(source_amount, Num(100000000, 1)))
         ELSE NumMul(NumDiv(source_amount, target_amount), Num(100000000, 1))
    ELSE Num(0, 1)

\* const exchangeRate = data.source_amount > 0 && data.target_amount > 0
\*   ? direction === "btc_to_stablecoin"
\*     ? data.target_amount / (data.source_amount / 1e8)
\*     : (data.source_amount / data.target_amount) * 1e8
\*   : 0;    (getSwapStatus and storedSwapToInfo)
exchangeRate(direction, source_amount, target_amount) ==
    IF Sign(source_amount) > 0 /\ Sign(target_amount) > 0
    THEN IF direction = "btc_to_stablecoin"
         THEN NumDiv(target_amount, NumDiv(source_amount, Num(100000000, 1)))
         ELSE NumMul(NumDiv(source_amount, target_amount), Num(100000000, 1))
    ELSE Num(0, 1)

\* the amounts of the result of swapBtcToStablecoin: sourceAmount,
\* targetAmount, exchangeRate, fee: { amount, percentage }
SwapAmountsBtc(resp) ==
    [sourceAmount |-> resp.source_amount,
     targetAmount |-> resp.target_amount,
     exchangeRate |->
         IF Sign(resp.source_amount) > 0 /\ Sign(resp.target_amount) > 0
         THEN NumDiv(resp.target_amount, NumDiv(resp.source_amount, Num(100000000, 1)))
         ELSE Num(0, 1),
     fee |-> [amount |-> resp.fee_sats,
              percentage |->
                  IF Sign(resp.source_amount) > 0
                  THEN NumMul(NumDiv(resp.fee_sats, resp.source_amount), Num(100, 1))
                  ELSE Num(0, 1)]]

\* the amounts of the result of swapStablecoinToBtc; the fee percentage is
\* guarded on source_amount and divides by target_amount
SwapAmountsEvm(resp) ==
    [sourceAmount |-> resp.source_amount,
     targetAmount |-> resp.target_amount,
     exchangeRate |->
         IF Sign(resp.source_amount) > 0 /\ Sign(resp.target_amount) > 0
         THEN NumMul(NumDiv(resp.source_amount, resp.target_amount), Num(100000000, 1))
         ELSE Num(0, 1),
     fee |-> [amount |-> resp.fee_sats,
              percentage |->
                  IF Sign(resp.source_amount) > 0
                  THEN NumMul(NumDiv(resp.fee_sats, resp.target_amount), Num(100, 1))
                  ELSE Num(0, 1)]]

\* what client.getQuote answers: rate and fees, or a failure
QuoteAnswer(rate, protocolFee, networkFee) ==
    [ok |-> TRUE, exchange_rate |-> rate, protocol_fee |-> protocolFee,
     network_fee |-> networkFee, protocol_fee_rate |-> Num(25, 10000)]

NoQuote ==
    [ok |-> FALSE, exchange_rate |-> "", protocol_fee |-> 0, network_fee |-> 0,
     protocol_fee_rate |-> NaN]

QuoteAnswers ==
    {QuoteAnswer(r, p, n) : r \in RateStrings, p \in {0, 250, 5000}, n \in {0, 100}}
        \cup {NoQuote}

\* the sourceAmount arguments of getQuoteBtcToStablecoin, in sats
SatsAmounts == {0, 250, 100000}

\* the sourceAmount arguments of getQuoteStablecoinToBtc, in token units
UnitAmounts == {-1, 0, 1, 5}

\* the call client.getQuote({ sourceChain, sourceToken, targetChain, targetToken, sourceAmount })
QuoteCall(sourceChain, sourceToken, targetChain, targetToken, sourceAmount) ==
    [api |-> "getQuote", arg |-> IF sourceToken = "btc" THEN targetToken ELSE sourceToken,
     sourceChain |-> sourceChain, sourceToken |-> sourceToken,
     targetChain |-> targetChain, targetToken |-> targetToken,
     sourceAmount |-> sourceAmount]

\* the StablecoinQuote getQuoteBtcToStablecoin returns
QuoteBtc(sourceAmount, targetToken, quote) ==
    LET rate == parseFloat(quote.exchange_rate)
        netSats == sourceAmount - quote.protocol_fee - quote.network_fee
        targetAmount == NumMul(NumDiv(Num(netSats, 1), Num(100000000, 1)), rate)
    IN  [sourceToken |-> "btc_arkade",
         targetToken |-> targetToken,
         sourceAmount |-> sourceAmount,
         targetAmount |-> targetAmount,
         exchangeRate |-> rate,
         fee |-> [amount |-> quote.protocol_fee + quote.network_fee,
                  percentage |-> NumMul(quote.protocol_fee_rate, Num(100, 1))],
         expiresAt |-> now + 60000]

\* the StablecoinQuote getQuoteStablecoinToBtc returns
QuoteEvm(sourceAmount, sourceToken, quote) ==
    LET rate == parseFloat(quote.exchange_rate)
        grossSats == NumMul(NumDiv(Num(sourceAmount, 1), rate), Num(100000000, 1))
        targetAmount == NumSub(NumSub(grossSats, Num(quote.protocol_fee, 1)),
                               Num(quote.network_fee, 1))
    IN  [sourceToken |-> sourceToken,
         targetToken |-> "btc_arkade",
         sourceAmount |-> sourceAmount,
         targetAmount |-> MathMax0(MathFloor(targetAmount)),
         exchangeRate |-> rate,
         fee |-> [amount |-> quote.protocol_fee + quote.network_fee,
                  percentage |-> NumMul(quote.protocol_fee_rate, Num(100, 1))],
         expiresAt |-> now + 60000]

\* async getQuoteBtcToStablecoin(sourceAmount, targetToken): getClient,
\* chainFromToken, resolveEvmToken, getQuote, return
getQuoteBtcToStablecoin(sourceAmount, targetToken, listing, quote) ==
    LET chain == chainFromToken(targetToken)
        r == ResolveStep(targetToken, chain, listing)
        ask == QuoteCall("Arkade", "btc", EVM_CHAIN_MAP[chain], r.token.token_id,
                         sourceAmount)
    IN  /\ opResult = NoResult
        /\ client' = "built"
        /\ tokenCache' = r.cache
        /\ IF r.failed
           THEN /\ opResult' = Threw("getQuoteBtcToStablecoin", "getTokens failed")
                /\ calls' = r.calls
           ELSE IF r.token = NoToken
           THEN /\ opResult' = Threw("getQuoteBtcToStablecoin",
                                     NotFoundError(targetToken, chain))
                /\ calls' = r.calls
           ELSE /\ calls' = r.calls \o <<ask>>
                /\ opResult' = IF quote.ok
                               THEN ReturnedValue("getQuoteBtcToStablecoin",
                                                  QuoteBtc(sourceAmount, targetToken, quote))
                               ELSE Threw("getQuoteBtcToStablecoin", "getQuote failed")
        /\ UNCHANGED <<storage, now, vocabulary>>

\* async getQuoteStablecoinToBtc(sourceAmount, sourceToken): getClient,
\* chainFromToken, resolveEvmToken, getQuote, return
getQuoteStablecoinToBtc(sourceAmount, sourceToken, listing, quote) ==
    LET chain == chainFromToken(sourceToken)
        r == ResolveStep(sourceToken, chain, listing)
        ask == QuoteCall(EVM_CHAIN_MAP[chain], r.token.token_id, "Arkade", "btc",
                         sourceAmount)
    IN  /\ opResult = NoResult
        /\ client' = "built"
        /\ tokenCache' = r.cache
        /\ IF r.failed
           THEN /\ opResult' = Threw("getQuoteStablecoinToBtc", "getTokens failed")
                /\ calls' = r.calls
           ELSE IF r.token = NoToken
           THEN /\ opResult' = Threw("getQuoteStablecoinToBtc",
                                     NotFoundError(sourceToken, chain))
                /\ calls' = r.calls
           ELSE /\ calls' = r.calls \o <<ask>>
                /\ opResult' = IF quote.ok
                               THEN ReturnedValue("getQuoteStablecoinToBtc",
                                                  QuoteEvm(sourceAmount, sourceToken, quote))
                               ELSE Threw("getQuoteStablecoinToBtc", "getQuote failed")
        /\ UNCHANGED <<storage, now, vocabulary>>

-----------------------------------------------------------------------------
(* The other operations of LendaSwapSkill: lendaswap.ts 263-271, 523-640 *)

\* what client.healthCheck() answers: a string, or a failure
HealthAnswers == {[ok |-> TRUE, text |-> "ok"], [ok |-> TRUE, text |-> "degraded"],
                  [ok |-> FALSE, text |-> ""]}

\* async isAvailable(): getClient, healthCheck, result === "ok"; false on any error
isAvailable(health) ==
    /\ opResult = NoResult
    /\ client' = "built"
    /\ calls' = <<CallOf("healthCheck", "")>>
    /\ opResult' = ReturnedValue("isAvailable", health.ok /\ health.text = "ok")
    /\ UNCHANGED <<tokenCache, storage, now, vocabulary>>

\* the pairs getAvailablePairs pushes: for each BTC token and each EVM token,
\* the pair from BTC and the pair to BTC, in the order of the two loops
PairsOf(tokens) ==
    LET B == Len(tokens.btc_tokens)
        E == Len(tokens.evm_tokens)
        btc(k) == tokens.btc_tokens[((k - 1) \div (2 * E)) + 1]
        evm(k) == tokens.evm_tokens[(((k - 1) \div 2) % E) + 1]
    IN  [k \in 1..(2 * B * E) |->
            IF k % 2 = 1
            THEN [from |-> tokenInfoToString(btc(k)), to |-> tokenInfoToString(evm(k)),
                  minAmount |-> 0, maxAmount |-> 0, feePercentage |-> 0]
            ELSE [from |-> tokenInfoToString(evm(k)), to |-> tokenInfoToString(btc(k)),
                  minAmount |-> 0, maxAmount |-> 0, feePercentage |-> 0]]

\* async getAvailablePairs(): getClient, getTokens, the pairs
getAvailablePairs(tokens) ==
    /\ opResult = NoResult
    /\ client' = "built"
    /\ calls' = <<CallOf("getTokens", "getAvailablePairs")>>
    /\ opResult' = IF tokens.ok
                   THEN ReturnedValue("getAvailablePairs", PairsOf(tokens))
                   ELSE Threw("getAvailablePairs", "getTokens failed")
    /\ UNCHANGED <<tokenCache, storage, now, vocabulary>>

\* what client.claim answers: { success, message, txHash, chain }, or a failure
ClaimAnswers ==
    {[ok |-> TRUE, success |-> TRUE, message |-> "claimed", txHash |-> "0xclaim",
      chain |-> "polygon"],
     [ok |-> TRUE, success |-> FALSE, message |-> "not claimable", txHash |-> "",
      chain |-> ""],
     [ok |-> FALSE, success |-> FALSE, message |-> "", txHash |-> "", chain |-> ""]}

\* claimSwap claiming again when the claim did not succeed
claimSwapRetrying(i, result) ==
    LET claim == [api |-> "claim", arg |-> ToString(storage[i].swapId),
                  returned |-> result]
    IN  /\ opResult = NoResult
        /\ i \in 1..Len(storage)
        /\ client' = "built"
        /\ calls' = IF result.ok /\ result.success THEN <<claim>> ELSE <<claim, claim>>
        /\ opResult' = IF result.ok
                       THEN ReturnedValue("claimSwap",
                                [success |-> result.success, message |-> result.message,
                                 txHash |-> result.txHash, chain |-> result.chain])
                       ELSE Threw("claimSwap", "claim failed")
        /\ UNCHANGED <<tokenCache, storage, now, vocabulary>>

\* async claimSwap(swapId): getClient, client.claim(swapId) with what it
\* answered, the result's four fields
claimSwap(i, result) ==
    LET claim == [api |-> "claim", arg |-> ToString(storage[i].swapId),
                  returned |-> result]
    IN  /\ opResult = NoResult
        /\ i \in 1..Len(storage)
        /\ client' = "built"
        /\ calls' = <<claim>>
        /\ opResult' = IF result.ok
                       THEN ReturnedValue("claimSwap",
                                [success |-> result.success, message |-> result.message,
                                 txHash |-> result.txHash, chain |-> result.chain])
                       ELSE Threw("claimSwap", "claim failed")
        /\ UNCHANGED <<tokenCache, storage, now, vocabulary>>

\* result.evmRefundData undefined: the remote service has no EVM refund data
NoRefundData == [to |-> "", data |-> "", timelockExpired |-> FALSE, timelockExpiry |-> 0]

\* what client.refundSwap answers, or a failure; refundAmount 0 stands for
\* an amount not given
RefundAnswers ==
    {[ok |-> TRUE, success |-> TRUE, message |-> "refunded", txId |-> "txid-refund",
      refundAmount |-> 99000, evmRefundData |-> NoRefundData],
     [ok |-> TRUE, success |-> FALSE, message |-> "locktime not reached", txId |-> "",
      refundAmount |-> 0,
      evmRefundData |-> [to |-> "0xhtlc", data |-> "0xrefund",
                         timelockExpired |-> FALSE, timelockExpiry |-> 1700000000]],
     [ok |-> TRUE, success |-> TRUE, message |-> "refund on the EVM side", txId |-> "",
      refundAmount |-> 0,
      evmRefundData |-> [to |-> "0xhtlc2", data |-> "0xrefund2",
                         timelockExpired |-> TRUE, timelockExpiry |-> 1600000000]],
     [ok |-> FALSE, success |-> FALSE, message |-> "", txId |-> "",
      refundAmount |-> 0, evmRefundData |-> NoRefundData]}

\* the message of a refund asked for a swap funded on the EVM side
EvmRefundMessage ==
    "This is an EVM->BTC swap. Use getEvmRefundCallData() to get the EVM refund transaction data."

\* the refund sent to the wallet's Ark address whatever was asked for
RefundCallToWallet(swapId, destinationAddress) ==
    [api |-> "refundSwap", arg |-> ToString(swapId), destinationAddress |-> "ark1wallet"]

\* the call client.refundSwap(swapId, { destinationAddress })
RefundCall(swapId, destinationAddress) ==
    [api |-> "refundSwap", arg |-> ToString(swapId),
     destinationAddress |-> destinationAddress]

\* async refundSwap(swapId, options): getClient, getSwap(updateStorage), the
\* refusal of EVM-funded swaps, the destination address, client.refundSwap
refundSwap(i, destination, data, addressOk, result) ==
    LET swap == storage[i]
        known == CallOf("getSwap", ToString(swap.swapId))
        arkade == swap.source_token.token_id = "btc" /\ swap.source_token.chain = "Arkade"
        derive == IF destination # "" THEN <<>>
                  ELSE IF arkade THEN <<CallOf("getAddress", "")>>
                  ELSE <<CallOf("getBoardingAddress", "")>>
        address == IF destination # "" THEN destination
                   ELSE IF arkade THEN "ark1wallet" ELSE "bc1boarding"
    IN  /\ opResult = NoResult
        /\ i \in 1..Len(storage)
        /\ client' = "built"
        /\ IF ~data.ok
           THEN /\ opResult' = Threw("refundSwap", "getSwap failed")
                /\ calls' = <<known>>
                /\ UNCHANGED storage
           ELSE /\ storage' = [storage EXCEPT ![i].status = data.status]
                /\ IF swap.direction = "evm_to_arkade" \/ swap.direction = "evm_to_bitcoin"
                   THEN /\ opResult' = ReturnedValue("refundSwap",
                                [success |-> FALSE, message |-> EvmRefundMessage,
                                 txId |-> "", refundAmount |-> 0])
                        /\ calls' = <<known>>
                   ELSE IF destination = "" /\ ~addressOk
                   THEN /\ opResult' = Threw("refundSwap", "wallet address failed")
                        /\ calls' = <<known>> \o derive
                   ELSE /\ calls' = <<known>> \o derive
                                       \o <<RefundCall(swap.swapId, address)>>
                        /\ opResult' = IF result.ok
                                       THEN ReturnedValue("refundSwap",
                                                [success |-> result.success,
                                                 message |-> result.message,
                                                 txId |-> result.txId,
                                                 refundAmount |-> result.refundAmount])
                                       ELSE Threw("refundSwap", "refundSwap failed")
        /\ UNCHANGED <<tokenCache, now, vocabulary>>

\* async getEvmFundingCallData(swapId, _tokenDecimals): getClient,
\* getCoordinatorFundingCallData, the approve and createSwap call data
getEvmFundingCallData(i, ok) ==
    /\ opResult = NoResult
    /\ i \in 1..Len(storage)
    /\ client' = "built"
    /\ calls' = <<CallOf("getCoordinatorFundingCallData", ToString(storage[i].swapId))>>
    /\ opResult' = IF ok
                   THEN ReturnedValue("getEvmFundingCallData",
                            [approve |-> [to |-> "0xtoken", data |-> "0xapprove"],
                             createSwap |-> [to |-> "0xhtlc", data |-> "0xcreate"]])
                   ELSE Threw("getEvmFundingCallData", "getCoordinatorFundingCallData failed")
    /\ UNCHANGED <<tokenCache, storage, now, vocabulary>>

\* "No EVM refund data available for this swap. ..."
NoRefundDataError ==
    "No EVM refund data available for this swap. The swap may not be an EVM-funded swap or the timelock has not expired."

\* getEvmRefundCallData refusing the refund data of a timelock that has not
\* expired
getEvmRefundCallDataExpiredOnly(i, result) ==
    /\ opResult = NoResult
    /\ i \in 1..Len(storage)
    /\ client' = "built"
    /\ calls' = <<[api |-> "refundSwap", arg |-> ToString(storage[i].swapId),
                   returned |-> result]>>
    /\ opResult' = IF ~result.ok THEN Threw("getEvmRefundCallData", "refundSwap failed")
                   ELSE IF ~result.evmRefundData.timelockExpired
                   THEN Threw("getEvmRefundCallData", NoRefundDataError)
                   ELSE ReturnedValue("getEvmRefundCallData",
                            [to |-> result.evmRefundData.to,
                             data |-> result.evmRefundData.data,
                             timelockExpired |-> result.evmRefundData.timelockExpired,
                             timelockExpiry |-> result.evmRefundData.timelockExpiry])
    /\ UNCHANGED <<tokenCache, storage, now, vocabulary>>

\* async getEvmRefundCallData(swapId): getClient, client.refundSwap(swapId)
\* with what it answered, the error when the result has no evmRefundData
getEvmRefundCallData(i, result) ==
    /\ opResult = NoResult
    /\ i \in 1..Len(storage)
    /\ client' = "built"
    /\ calls' = <<[api |-> "refundSwap", arg |-> ToString(storage[i].swapId),
                   returned |-> result]>>
    /\ opResult' = IF ~result.ok THEN Threw("getEvmRefundCallData", "refundSwap failed")
                   ELSE IF result.evmRefundData = NoRefundData
                   THEN Threw("getEvmRefundCallData", NoRefundDataError)
                   ELSE ReturnedValue("getEvmRefundCallData",
                            [to |-> result.evmRefundData.to,
                             data |-> result.evmRefundData.data,
                             timelockExpired |-> result.evmRefundData.timelockExpired,
                             timelockExpiry |-> result.evmRefundData.timelockExpiry])
    /\ UNCHANGED <<tokenCache, storage, now, vocabulary>>

-----------------------------------------------------------------------------
(* Swaps the swap storage holds when the skill is constructed              *)
(* (config.swapStorage): lendaswap.ts 188-195, 200-206.                     *)

\* no getSwapStatus result that reported a swap completed observed yet
HistoryIdle == firstCompletedAt = <<>>

\* The swap lists a swap storage may hold at construction: swaps of one of
\* the four directions of the remote service, funded from the Arkade wallet,
\* from an on-chain Bitcoin address or on the EVM side, in any order of
\* creation.
StoredSwapLists ==
    LET onchain == [token_id |-> "btc", symbol |-> "BTC", chain |-> "Bitcoin"]
        source == [arkade_to_evm |-> BtcArkade, bitcoin_to_evm |-> onchain,
                   evm_to_arkade |-> UsdcPol, evm_to_bitcoin |-> UsdcPol]
        target == [arkade_to_evm |-> UsdcPol, bitcoin_to_evm |-> UsdcPol,
                   evm_to_arkade |-> BtcArkade, evm_to_bitcoin |-> onchain]
        swap(id, d, c) ==
            [swapId |-> id, status |-> "clientfunded", direction |-> d,
             source_token |-> source[d], target_token |-> target[d],
             source_amount |-> 100000, target_amount |-> 97,
             created_at |-> c, btc_vhtlc_address |-> "ark1vhtlc" \o ToString(id)]
    IN  UNION {{[i \in 1..n |-> swap(i, d, c[i])] :
                   d \in DOMAIN source, c \in [1..n -> 1..2]} :
               n \in 1..MaxSwaps}

-----------------------------------------------------------------------------
(* The token registry under observation, and resolutions that run          *)
(* concurrently: lendaswap.ts 200-261.                                      *)

\* no token listing asked for yet
RegistryIdle == tokenFetches = 0 /\ asked = <<"", "">>

\* a listing whose token spells its symbol in lower case
UsdcArbLower == [token_id |-> "0xusdc42161", symbol |-> "usdc", chain |-> "42161"]

\* what client.getTokens() may answer in the runs that observe the registry
RegistryListings ==
    TokenListings \cup
        {[ok |-> TRUE, btc_tokens |-> <<BtcArkade>>, evm_tokens |-> <<UsdcArbLower>>]}

\* the answers a resolution may get: none is asked for once the cache is built
RegistryAnswers == IF tokenCache.null THEN RegistryListings \cup {NoListing} ELSE {NoListing}

\* (token, chain) arguments of the swap operations, the chain of the token's
\* name or another
RegistryTokenArgs ==
    TokenArgs \cup {<<"usdc_pol", "arbitrum">>, <<"usdt0_pol", "polygon">>}

\* the token arguments of the quote operations
QuoteTokens == {"usdc_pol", "usdc_eth", "usdt_arb"}

\* the calls of client.getTokens() that resolveEvmToken made among these calls
RECURSIVE RegistryFetches(_)
RegistryFetches(made) ==
    IF made = <<>> THEN 0
    ELSE (IF Head(made) = CallOf("getTokens", "") THEN 1 ELSE 0) + RegistryFetches(Tail(made))

\* the registry observed over a resolution with these arguments
Resolution(token, chain) ==
    /\ tokenFetches' = tokenFetches + RegistryFetches(calls')
    /\ tokenFetches' <= MaxFetches
    /\ asked' = <<token, chain>>

\* an operation that resolves no token
NoResolution == UNCHANGED registryVars

\* the statuses of the remote service in the runs that observe the registry
RegistryVocabulary == {"clientfunded", "serverredeemed"}

\* the resolveEvmToken calls that may be in flight together
Resolvers == {1, 2}

\* no resolveEvmToken call in flight
RaceIdle ==
    /\ rPc = [p \in Resolvers |-> "idle"]
    /\ rArg = [p \in Resolvers |-> <<"", "">>]
    /\ rOut = [p \in Resolvers |-> [kind |-> "none", token |-> NoToken, error |-> ""]]
    /\ clientBuilds = 0

\* a resolveEvmToken call ended: it returned a token, or threw
RaceReturned(token) == [kind |-> "returned", token |-> token, error |-> ""]
RaceThrew(error) == [kind |-> "threw", token |-> NoToken, error |-> error]

\* lines 248-260 on the cache as it is when the call reaches them
RaceLookup(entries, token, chain) ==
    LET info == ResolveInCache(entries, token, chain)
    IN  IF info = NoToken THEN RaceThrew(NotFoundError(token, chain))
        ELSE RaceReturned(info)

\* resolveEvmToken(token, chain) is called: with a cache it answers at once;
\* without one it calls getClient(), which returns this.client or starts
\* builder.build(), and is suspended at the await
RaceStart(p, token, chain) ==
    /\ rPc[p] = "idle"
    /\ rArg' = [rArg EXCEPT ![p] = <<token, chain>>]
    /\ IF ~tokenCache.null
       THEN /\ rPc' = [rPc EXCEPT ![p] = "done"]
            /\ rOut' = [rOut EXCEPT ![p] = RaceLookup(tokenCache.entries, token, chain)]
            /\ UNCHANGED clientBuilds
       ELSE IF client = "built"
       THEN /\ rPc' = [rPc EXCEPT ![p] = "gotClient"]
            /\ UNCHANGED <<rOut, clientBuilds>>
       ELSE /\ rPc' = [rPc EXCEPT ![p] = "building"]
            /\ UNCHANGED <<rOut, clientBuilds>>
    /\ UNCHANGED <<swapVars, registryVars>>

\* builder.build() ends: this.client = await builder.build(), or the error
RaceBuilt(p, ok) ==
    /\ rPc[p] = "building"
    /\ IF ok
       THEN /\ client' = "built"
            /\ clientBuilds' = clientBuilds + 1
            /\ rPc' = [rPc EXCEPT ![p] = "gotClient"]
            /\ UNCHANGED rOut
       ELSE /\ rPc' = [rPc EXCEPT ![p] = "done"]
            /\ rOut' = [rOut EXCEPT ![p] = RaceThrew("build failed")]
            /\ UNCHANGED <<client, clientBuilds>>
    /\ UNCHANGED <<tokenCache, storage, now, vocabulary, opResult, calls,
                   registryVars, rArg>>

\* the call goes on after await this.getClient(): client.getTokens() is
\* called, and the call is suspended at the await
RaceFetch(p) ==
    /\ rPc[p] = "gotClient"
    /\ rPc' = [rPc EXCEPT ![p] = "getTokens"]
    /\ tokenFetches' = tokenFetches + 1
    /\ UNCHANGED <<swapVars, asked, rArg, rOut, clientBuilds>>

\* getTokens answers: this.tokenCache = new Map(), filled from the answer;
\* then the lookup; or the error
RaceFill(p, listing) ==
    /\ rPc[p] = "getTokens"
    /\ rPc' = [rPc EXCEPT ![p] = "done"]
    /\ IF listing.ok
       THEN /\ tokenCache' = [null |-> FALSE, entries |-> CacheOf(listing)]
            /\ rOut' = [rOut EXCEPT ![p] =
                           RaceLookup(CacheOf(listing), rArg[p][1], rArg[p][2])]
       ELSE /\ rOut' = [rOut EXCEPT ![p] = RaceThrew("getTokens failed")]
            /\ UNCHANGED tokenCache
    /\ UNCHANGED <<client, storage, now, vocabulary, opResult, calls,
                   registryVars, rArg, clientBuilds>>

-----------------------------------------------------------------------------
(* Specifications *)

InitStatus ==
    /\ sdkStatus \in SdkStatusInputs
    /\ mapped = <<>>
    /\ terminalArg = ""
    /\ terminalRes = FALSE
    /\ WaitIdle
    /\ SwapIdle
    /\ RegistryIdle
    /\ RaceIdle
    /\ HistoryIdle

NextStatus ==
    \/ (MapStatus /\ UNCHANGED <<waitVars, swapVars, registryVars, raceVars, historyVars>>)
    \/ (Renormalize /\ UNCHANGED <<waitVars, swapVars, registryVars, raceVars, historyVars>>)
    \/ \E s \in TerminalInputs : ClassifyTerminal(s) /\ UNCHANGED <<waitVars, swapVars, registryVars, raceVars, historyVars>>

\* the status functions, applied to every input
SpecStatus == InitStatus /\ [][NextStatus]_vars

InitWait == StatusIdle /\ WaitIdle /\ SwapIdle /\ RegistryIdle /\ RaceIdle /\ HistoryIdle

NextWait ==
    \/ \E t \in TimeoutInputs : Call(t) /\ UNCHANGED <<statusVars, swapVars, registryVars, raceVars, historyVars>>
    \/ (WalletResolveSetup /\ UNCHANGED <<statusVars, swapVars, registryVars, raceVars, historyVars>>)
    \/ \E e \in SetupErrors : WalletRejectSetup(e) /\ UNCHANGED <<statusVars, swapVars, registryVars, raceVars, historyVars>>
    \/ \E f \in IncomingFundsInputs : WalletNotify(f) /\ UNCHANGED <<statusVars, swapVars, registryVars, raceVars, historyVars>>
    \/ (TimerFire /\ UNCHANGED <<statusVars, swapVars, registryVars, raceVars, historyVars>>)
    \/ (RunThen /\ UNCHANGED <<statusVars, swapVars, registryVars, raceVars, historyVars>>)
    \/ (RunPassRejection /\ UNCHANGED <<statusVars, swapVars, registryVars, raceVars, historyVars>>)
    \/ (RunCatch /\ UNCHANGED <<statusVars, swapVars, registryVars, raceVars, historyVars>>)
    \/ (Continuation /\ UNCHANGED <<statusVars, swapVars, registryVars, raceVars, historyVars>>)

\* one call of waitForIncomingFunds, under every schedule of the event loop
SpecWait == InitWait /\ [][NextWait]_vars

\* the same call when the event loop runs every queued microtask and the
\* armed timer fires once the microtask queue is empty; the wallet is free
\* never to answer
SpecWaitFair ==
    /\ InitWait
    /\ [][NextWait]_vars
    /\ WF_vars(TimerFire /\ UNCHANGED <<statusVars, swapVars, registryVars, raceVars, historyVars>>)
    /\ WF_vars(RunThen /\ UNCHANGED <<statusVars, swapVars, registryVars, raceVars, historyVars>>)
    /\ WF_vars(RunPassRejection /\ UNCHANGED <<statusVars, swapVars, registryVars, raceVars, historyVars>>)
    /\ WF_vars(RunCatch /\ UNCHANGED <<statusVars, swapVars, registryVars, raceVars, historyVars>>)
    /\ WF_vars(Continuation /\ UNCHANGED <<statusVars, swapVars, registryVars, raceVars, historyVars>>)

InitSwap == StatusIdle /\ WaitIdle /\ SwapInit /\ RegistryIdle /\ RaceIdle /\ HistoryIdle

NextSwap ==
    \/ \E a \in TokenArgs, l \in ListingAnswers, c \in CreateAnswers, p \in PayAnswers :
          swapBtcToStablecoin(a[1], a[2], 100000, l, c, p) /\ UNCHANGED <<statusVars, waitVars, registryVars, raceVars, historyVars>>
    \/ \E a \in TokenArgs, t \in {"", "ark1caller"}, w \in BOOLEAN,
          l \in ListingAnswers, c \in CreateAnswers :
          swapStablecoinToBtc(a[1], a[2], t, w, l, c) /\ UNCHANGED <<statusVars, waitVars, registryVars, raceVars, historyVars>>
    \/ \E i \in 1..MaxSwaps, s \in StatusAnswers :
          getSwapStatus(i, s) /\ UNCHANGED <<statusVars, waitVars, registryVars, raceVars, historyVars>>
    \/ \E s \in [Refetched -> StatusAnswers] :
          getPendingSwaps(s) /\ UNCHANGED <<statusVars, waitVars, registryVars, raceVars, historyVars>>
    \/ (getSwapHistory /\ UNCHANGED <<statusVars, waitVars, registryVars, raceVars, historyVars>>)
    \/ (TakeResult /\ UNCHANGED <<statusVars, waitVars, registryVars, raceVars, historyVars>>)
    \/ (Tick /\ UNCHANGED <<statusVars, waitVars, registryVars, raceVars, historyVars>>)

\* the swap operations of one LendaSwapSkill instance, called one after the other
SpecSwap == InitSwap /\ [][NextSwap]_vars

InitRegistry ==
    /\ StatusIdle /\ WaitIdle /\ RegistryIdle /\ RaceIdle /\ HistoryIdle
    /\ SwapStart
    /\ vocabulary = RegistryVocabulary

NextRegistry ==
    \/ \E a \in RegistryTokenArgs, l \in RegistryAnswers, c \in CreateAnswers, p \in PayAnswers :
          /\ Len(storage) < MaxRegistrySwaps
          /\ swapBtcToStablecoin(a[1], a[2], 100000, l, c, p)
          /\ Resolution(a[1], a[2])
          /\ UNCHANGED <<statusVars, waitVars, raceVars, historyVars>>
    \/ \E a \in RegistryTokenArgs, l \in RegistryAnswers, c \in CreateAnswers :
          /\ Len(storage) < MaxRegistrySwaps
          /\ swapStablecoinToBtc(a[1], a[2], "ark1caller", TRUE, l, c)
          /\ Resolution(a[1], a[2])
          /\ UNCHANGED <<statusVars, waitVars, raceVars, historyVars>>
    \/ \E t \in QuoteTokens, l \in RegistryAnswers,
          q \in {QuoteAnswer("97500", 250, 100), NoQuote} :
          /\ getQuoteBtcToStablecoin(100000, t, l, q)
          /\ Resolution(t, chainFromToken(t))
          /\ UNCHANGED <<statusVars, waitVars, raceVars, historyVars>>
    \/ \E t \in QuoteTokens, l \in RegistryAnswers,
          q \in {QuoteAnswer("97500", 250, 100), NoQuote} :
          /\ getQuoteStablecoinToBtc(5, t, l, q)
          /\ Resolution(t, chainFromToken(t))
          /\ UNCHANGED <<statusVars, waitVars, raceVars, historyVars>>
    \/ \E i \in 1..MaxSwaps, s \in StatusAnswers :
          getSwapStatus(i, s) /\ NoResolution /\ UNCHANGED <<statusVars, waitVars, raceVars, historyVars>>
    \/ \E s \in [Refetched -> StatusAnswers] :
          getPendingSwaps(s) /\ NoResolution /\ UNCHANGED <<statusVars, waitVars, raceVars, historyVars>>
    \/ (getSwapHistory /\ NoResolution /\ UNCHANGED <<statusVars, waitVars, raceVars, historyVars>>)
    \/ \E h \in HealthAnswers :
          isAvailable(h) /\ NoResolution /\ UNCHANGED <<statusVars, waitVars, raceVars, historyVars>>
    \/ \E l \in RegistryListings \cup {NoListing} :
          getAvailablePairs(l) /\ NoResolution /\ UNCHANGED <<statusVars, waitVars, raceVars, historyVars>>
    \/ \E i \in 1..MaxSwaps, r \in ClaimAnswers :
          claimSwap(i, r) /\ NoResolution /\ UNCHANGED <<statusVars, waitVars, raceVars, historyVars>>
    \/ \E i \in 1..MaxSwaps, d \in {"", "ark1refund"}, s \in StatusAnswers,
          w \in BOOLEAN, r \in RefundAnswers :
          refundSwap(i, d, s, w, r) /\ NoResolution /\ UNCHANGED <<statusVars, waitVars, raceVars, historyVars>>
    \/ \E i \in 1..MaxSwaps, ok \in BOOLEAN :
          getEvmFundingCallData(i, ok) /\ NoResolution
              /\ UNCHANGED <<statusVars, waitVars, raceVars, historyVars>>
    \/ \E i \in 1..MaxSwaps, r \in RefundAnswers :
          getEvmRefundCallData(i, r) /\ NoResolution
              /\ UNCHANGED <<statusVars, waitVars, raceVars, historyVars>>
    \/ (TakeResult /\ NoResolution /\ UNCHANGED <<statusVars, waitVars, raceVars, historyVars>>)

\* every operation of one LendaSwapSkill instance, called one after the
\* other, with the token registry observed
SpecRegistry == InitRegistry /\ [][NextRegistry]_vars

InitRace ==
    /\ StatusIdle /\ WaitIdle /\ RegistryIdle /\ RaceIdle /\ HistoryIdle
    /\ client \in {"null", "built"}
    /\ tokenCache = [null |-> TRUE, entries |-> <<>>]
    /\ storage = <<>>
    /\ now = 0
    /\ vocabulary = {}
    /\ opResult = NoResult
    /\ calls = <<>>

NextRace ==
    \/ \E p \in Resolvers, a \in RegistryTokenArgs :
          RaceStart(p, a[1], a[2]) /\ UNCHANGED <<statusVars, waitVars, historyVars>>
    \/ \E p \in Resolvers, ok \in BOOLEAN :
          RaceBuilt(p, ok) /\ UNCHANGED <<statusVars, waitVars, historyVars>>
    \/ \E p \in Resolvers : RaceFetch(p) /\ UNCHANGED <<statusVars, waitVars, historyVars>>
    \/ \E p \in Resolvers, l \in RegistryListings \cup {NoListing} :
          RaceFill(p, l) /\ UNCHANGED <<statusVars, waitVars, historyVars>>

\* resolveEvmToken calls of one instance that are in flight together, each
\* going on from await to await in any order
SpecRace == InitRace /\ [][NextRace]_vars

InitQuote == StatusIdle /\ WaitIdle /\ RegistryIdle /\ RaceIdle /\ HistoryIdle /\ SwapIdle

NextQuote ==
    \/ \E s \in SatsAmounts, t \in QuoteTokens, l \in ListingAnswers, q \in QuoteAnswers :
          getQuoteBtcToStablecoin(s, t, l, q)
              /\ UNCHANGED <<statusVars, waitVars, registryVars, raceVars, historyVars>>
    \/ \E s \in UnitAmounts, t \in QuoteTokens, l \in ListingAnswers, q \in QuoteAnswers :
          getQuoteStablecoinToBtc(s, t, l, q)
              /\ UNCHANGED <<statusVars, waitVars, registryVars, raceVars, historyVars>>
    \/ (TakeResult /\ UNCHANGED <<statusVars, waitVars, registryVars, raceVars, historyVars>>)

\* the quote operations of one instance, over the amounts asked for and the
\* rates and fees the remote quoter gives
SpecQuote == InitQuote /\ [][NextQuote]_vars

NextAmounts ==
    \/ \E r \in CreatedAmounts("btc_to_stablecoin") :
          /\ opResult = NoResult
          /\ opResult' = ReturnedValue("swapBtcToStablecoin", SwapAmountsBtc(r))
          /\ UNCHANGED <<client, tokenCache, storage, now, vocabulary, calls>>
          /\ UNCHANGED <<statusVars, waitVars, registryVars, raceVars, historyVars>>
    \/ \E r \in CreatedAmounts("stablecoin_to_btc") :
          /\ opResult = NoResult
          /\ opResult' = ReturnedValue("swapStablecoinToBtc", SwapAmountsEvm(r))
          /\ UNCHANGED <<client, tokenCache, storage, now, vocabulary, calls>>
          /\ UNCHANGED <<statusVars, waitVars, registryVars, raceVars, historyVars>>
    \/ \E d \in {"arkade_to_evm", "bitcoin_to_evm", "evm_to_arkade", "evm_to_bitcoin"} :
          \E r \in CreatedAmounts(DirectionOf(d)) :
             /\ opResult = NoResult
             /\ opResult' = ReturnedValue("getSwapStatus",
                    [direction |-> DirectionOf(d),
                     sourceAmount |-> r.source_amount,
                     targetAmount |-> r.target_amount,
                     exchangeRate |-> exchangeRate(DirectionOf(d), r.source_amount,
                                                   r.target_amount)])
             /\ UNCHANGED <<client, tokenCache, storage, now, vocabulary, calls>>
             /\ UNCHANGED <<statusVars, waitVars, registryVars, raceVars, historyVars>>
    \/ \E d \in {"arkade_to_evm", "bitcoin_to_evm", "evm_to_arkade", "evm_to_bitcoin"} :
          \E r \in CreatedAmounts(DirectionOf(d)) :
             /\ opResult = NoResult
             /\ opResult' = ReturnedValue("getSwapHistory",
                    [direction |-> DirectionOf(d),
                     sourceAmount |-> r.source_amount,
                     targetAmount |-> r.target_amount,
                     exchangeRate |-> exchangeRate(DirectionOf(d), r.source_amount,
                                                   r.target_amount)])
             /\ UNCHANGED <<client, tokenCache, storage, now, vocabulary, calls>>
             /\ UNCHANGED <<statusVars, waitVars, registryVars, raceVars, historyVars>>
    \/ (TakeResult /\ UNCHANGED <<statusVars, waitVars, registryVars, raceVars, historyVars>>)

\* the amounts, the exchange rate and the fee percentage of the results of
\* the creations, of getSwapStatus and of the history entries, computed over
\* the amounts the remote service may report
SpecAmounts == InitQuote /\ [][NextAmounts]_vars

InitCreate == StatusIdle /\ WaitIdle /\ RegistryIdle /\ RaceIdle /\ HistoryIdle /\ SwapInit

NextCreate ==
    \/ \E a \in TokenArgs, s \in {0, 100000}, l \in ListingAnswers,
          c \in WideCreateAnswers, p \in PayAnswers :
          swapBtcToStablecoin(a[1], a[2], s, l, c, p)
              /\ UNCHANGED <<statusVars, waitVars, registryVars, raceVars, historyVars>>
    \/ \E a \in TokenArgs, t \in {"", "ark1caller"}, w \in BOOLEAN,
          l \in ListingAnswers, c \in WideCreateAnswers :
          swapStablecoinToBtc(a[1], a[2], t, w, l, c)
              /\ UNCHANGED <<statusVars, waitVars, registryVars, raceVars, historyVars>>
    \/ (TakeResult /\ UNCHANGED <<statusVars, waitVars, registryVars, raceVars, historyVars>>)

\* the swap creations of one instance, over the amounts asked for and the
\* answers of the remote service and of the wallet
SpecCreate == InitCreate /\ [][NextCreate]_vars

InitStored ==
    /\ StatusIdle /\ WaitIdle /\ RegistryIdle /\ RaceIdle /\ HistoryIdle
    /\ client = "null"
    /\ tokenCache = [null |-> TRUE, entries |-> <<>>]
    /\ storage \in StoredSwapLists
    /\ now = 0
    /\ vocabulary = RegistryVocabulary
    /\ opResult = NoResult
    /\ calls = <<>>

NextStored ==
    \/ \E i \in 1..MaxSwaps, s \in StatusAnswers :
          /\ getSwapStatus(i, s)
          /\ firstCompletedAt' =
                 IF /\ opResult'.kind = "returned"
                    /\ opResult'.swaps[1].status = "completed"
                    /\ firstCompletedAt = <<>>
                 THEN <<opResult'.swaps[1]>>
                 ELSE firstCompletedAt
          /\ UNCHANGED <<statusVars, waitVars, registryVars, raceVars>>
    \/ \E s \in [Refetched -> StatusAnswers] :
          getPendingSwaps(s) /\ UNCHANGED <<statusVars, waitVars, registryVars, raceVars, historyVars>>
    \/ (getSwapHistory /\ UNCHANGED <<statusVars, waitVars, registryVars, raceVars, historyVars>>)
    \/ \E i \in 1..MaxSwaps, r \in ClaimAnswers :
          claimSwap(i, r) /\ UNCHANGED <<statusVars, waitVars, registryVars, raceVars, historyVars>>
    \/ \E i \in 1..MaxSwaps, d \in {"", "ark1refund"}, s \in StatusAnswers,
          w \in BOOLEAN, r \in RefundAnswers :
          refundSwap(i, d, s, w, r) /\ UNCHANGED <<statusVars, waitVars, registryVars, raceVars, historyVars>>
    \/ \E i \in 1..MaxSwaps, r \in RefundAnswers :
          getEvmRefundCallData(i, r) /\ UNCHANGED <<statusVars, waitVars, registryVars, raceVars, historyVars>>
    \/ (TakeResult /\ UNCHANGED <<statusVars, waitVars, registryVars, raceVars, historyVars>>)
    \/ (Tick /\ UNCHANGED <<statusVars, waitVars, registryVars, raceVars, historyVars>>)

\* the operations of one instance on the swaps its swap storage holds, called
\* one after the other while time passes
SpecStored == InitStored /\ [][NextStored]_vars

-----------------------------------------------------------------------------
(* Properties of the operations on stored swaps, checked under SpecStored *)

\* C21, as claimed: over the getSwapStatus calls for one swap, completedAt is
\* the observation time of the first call that observed the swap completed;
\* a later call that observes it completed again reports that same
\* completedAt.  The code evaluates new Date() in every call, so the
\* completion time it reports moves with the clock.
C21_CompletedAtSetOnce ==
    (/\ opResult.op = "getSwapStatus"
     /\ opResult.kind = "returned"
     /\ firstCompletedAt # <<>>
     /\ opResult.swaps[1].id = firstCompletedAt[1].id
     /\ opResult.swaps[1].status = "completed")
        => opResult.swaps[1].completedAt = firstCompletedAt[1].completedAt

\* C22, as claimed: no swap that getPendingSwaps returns has a terminal
\* status, whether the terminal status is the cached one or the one fetched
\* during the listing.  The code tests the cached status only and pushes
\* whatever the re-fetch returns.
C22_NoTerminalPending ==
    (opResult.op = "getPendingSwaps" /\ opResult.kind = "returned") =>
        \A j \in 1..Len(opResult.swaps) : ~isTerminalStatus(opResult.swaps[j].status)

\* C23: a re-fetch that fails never fails getPendingSwaps.  The operation
\* returns; it asks the remote service about every stored swap whose cached
\* status is not terminal, those after a failed re-fetch included, and lists
\* one entry per swap asked about, in that order; the entry of a swap whose
\* re-fetch failed is the projection of the stored swap (storedSwapToInfo).
C23_RefetchFailureKeepsListing ==
    opResult.op = "getPendingSwaps" =>
        /\ opResult.kind = "returned"
        /\ calls[1] = CallOf("listAllSwaps", "")
        /\ Len(opResult.swaps) = Len(calls) - 1
        /\ \A i \in 1..Len(storage) :
              ~isTerminalStatus(mapSwapStatus(storage[i].status)) =>
                  \E k \in 2..Len(calls) : calls[k].arg = ToString(storage[i].swapId)
        /\ \A k \in 2..Len(calls) :
              /\ calls[k].api = "getSwap"
              /\ ToString(opResult.swaps[k - 1].id) = calls[k].arg
              /\ calls[k].returned = "" =>
                    \E i \in 1..Len(storage) :
                        /\ storage[i].swapId = opResult.swaps[k - 1].id
                        /\ opResult.swaps[k - 1] = storedSwapToInfo(storage[i])
                        /\ ~isTerminalStatus(opResult.swaps[k - 1].status)

\* a listing in which the re-fetch of the first swap failed and the second
\* swap was re-fetched and listed after it
C23_Witness ==
    /\ opResult.op = "getPendingSwaps"
    /\ Len(calls) = 3
    /\ calls[2].returned = ""
    /\ calls[3].returned = "clientfunded"
    /\ Len(opResult.swaps) = 2
    /\ opResult.swaps[1].id = 1
    /\ opResult.swaps[2].id = 2

\* C24: getSwapHistory returns one entry per stored swap, terminal or not,
\* each the projection of the stored swap (storedSwapToInfo) at the time of
\* the call or before, in an order in which createdAt never increases; the
\* only remote call it makes is listAllSwaps, no getSwap.
C24_HistoryFromTheCache ==
    opResult.op = "getSwapHistory" =>
        /\ opResult.kind = "returned"
        /\ calls = <<CallOf("listAllSwaps", "")>>
        /\ Len(opResult.swaps) = Len(storage)
        /\ \A i \in 1..Len(storage) :
              \E j \in 1..Len(opResult.swaps) :
                  /\ \E t \in 0..now :
                        opResult.swaps[j] =
                            [storedSwapToInfo(storage[i]) EXCEPT
                                !.completedAt = CompletedAt(mapSwapStatus(storage[i].status), t)]
                  /\ \A k \in 1..Len(opResult.swaps) :
                        opResult.swaps[k].id = storage[i].swapId => k = j
        /\ \A j \in 1..(Len(opResult.swaps) - 1) :
              opResult.swaps[j].createdAt >= opResult.swaps[j + 1].createdAt

\* a history of two swaps stored in the order of their creation, one of
\* them completed: the later swap comes first
C24_Witness ==
    /\ opResult.op = "getSwapHistory"
    /\ Len(storage) = 2
    /\ storage[1].created_at < storage[2].created_at
    /\ storage[1].status = "serverredeemed"
    /\ opResult.swaps[1].id = 2
    /\ opResult.swaps[2].status = "completed"

\* C25: a claimSwap call makes one remote claim call, for the swap asked
\* about, whether the claim succeeds, reports success = false or is rejected:
\* it never claims again.  When the call answered, claimSwap returns the
\* success flag, message, chain and transaction hash of that answer; when it
\* was rejected, claimSwap throws.
C25_OneClaimCall ==
    opResult.op = "claimSwap" =>
        /\ Len(calls) = 1
        /\ calls[1].api = "claim"
        /\ \E i \in 1..Len(storage) : calls[1].arg = ToString(storage[i].swapId)
        /\ IF calls[1].returned.ok
           THEN /\ opResult.kind = "returned"
                /\ opResult.value.success = calls[1].returned.success
                /\ opResult.value.message = calls[1].returned.message
                /\ opResult.value.chain = calls[1].returned.chain
                /\ opResult.value.txHash = calls[1].returned.txHash
           ELSE opResult.kind = "threw"

\* a claim the remote service answered with success = false
C25_Witness ==
    /\ opResult.op = "claimSwap"
    /\ opResult.kind = "returned"
    /\ ~opResult.value.success
    /\ opResult.value.message = "not claimable"
    /\ Len(calls) = 1

\* C26: for a swap the remote service reports in the direction evm_to_arkade
\* or evm_to_bitcoin, refundSwap returns success = false with the message
\* that points to getEvmRefundCallData; it does not throw, and after the
\* getSwap call that told it the direction it makes no remote refund call
\* and asks the wallet for no address.  (Only a getSwap that is rejected
\* makes it throw, before any direction is known.)  These are the swaps
\* getSwapStatus reports as stablecoin_to_btc, and no other swap is refused.
C26_EvmSwapRefundRefused ==
    opResult.op = "refundSwap" =>
        \A i \in 1..Len(storage) :
            calls[1].arg = ToString(storage[i].swapId) =>
                LET evm == storage[i].direction \in {"evm_to_arkade", "evm_to_bitcoin"}
                    reported == SwapInfoOf(storage[i].swapId, storage[i]).direction
                    refused == /\ opResult.kind = "returned"
                               /\ ~opResult.value.success
                               /\ opResult.value.message = EvmRefundMessage
                IN  /\ evm <=> reported = "stablecoin_to_btc"
                    /\ evm => /\ calls = <<CallOf("getSwap", ToString(storage[i].swapId))>>
                              /\ refused \/ opResult = Threw("refundSwap", "getSwap failed")
                    /\ ~evm => ~refused

\* the refund of a swap from the EVM side to on-chain Bitcoin, refused
C26_Witness ==
    /\ opResult.op = "refundSwap"
    /\ opResult.kind = "returned"
    /\ opResult.value.message = EvmRefundMessage
    /\ storage[1].direction = "evm_to_bitcoin"
    /\ calls = <<CallOf("getSwap", "1")>>

\* C27: for a swap funded with BTC, a refundSwap whose getSwap call and
\* wallet address lookup (if any) answer calls the remote refund endpoint
\* once, as its last call, with the destination the caller gave; without
\* one, with the wallet's Ark address (getAddress) when the swap's source
\* token is btc on Arkade, and with the wallet's boarding address
\* (getBoardingAddress) otherwise.
C27_RefundDestination ==
    [][opResult'.op = "refundSwap" =>
          \A i \in {k \in 1..Len(storage) : ToString(storage[k].swapId) = calls'[1].arg} :
              storage[i].direction \notin {"evm_to_arkade", "evm_to_bitcoin"} =>
                  \A d \in {"", "ark1refund"}, s \in StatusAnswers,
                     w \in BOOLEAN, r \in RefundAnswers :
                      (/\ s.ok
                       /\ d # "" \/ w
                       /\ refundSwap(i, d, s, w, r))
                          => LET arkade == /\ storage[i].source_token.token_id = "btc"
                                           /\ storage[i].source_token.chain = "Arkade"
                                 destination == IF d # "" THEN d
                                                ELSE IF arkade THEN "ark1wallet"
                                                ELSE "bc1boarding"
                                 lookup == IF d # "" THEN <<>>
                                           ELSE IF arkade THEN <<CallOf("getAddress", "")>>
                                           ELSE <<CallOf("getBoardingAddress", "")>>
                             IN  calls' = <<CallOf("getSwap", ToString(storage[i].swapId))>>
                                            \o lookup
                                            \o <<[api |-> "refundSwap",
                                                  arg |-> ToString(storage[i].swapId),
                                                  destinationAddress |-> destination]>>]_vars

\* the refund of a swap funded from an on-chain address, no destination
\* given: it goes to the wallet's boarding address
C27_Witness ==
    /\ opResult.op = "refundSwap"
    /\ opResult.kind = "returned"
    /\ opResult.value.success
    /\ storage[1].direction = "bitcoin_to_evm"
    /\ Len(calls) = 3
    /\ calls[1].arg = "1"
    /\ calls[2] = CallOf("getBoardingAddress", "")
    /\ calls[3].api = "refundSwap"
    /\ calls[3].destinationAddress = "bc1boarding"

\* C28: getEvmRefundCallData throws the "No EVM refund data available" error
\* exactly when the remote refund call answered without EVM refund data;
\* when the answer holds refund data it returns that data's to, data,
\* timelockExpired and timelockExpiry as they are, the timelock expired or
\* not; a rejected remote call is thrown as it is.
C28_NoRefundDataError ==
    opResult.op = "getEvmRefundCallData" =>
        /\ Len(calls) = 1
        /\ calls[1].api = "refundSwap"
        /\ LET answer == calls[1].returned
           IN  /\ (opResult.kind = "threw" /\ opResult.error = NoRefundDataError)
                     <=> (answer.ok /\ answer.evmRefundData = NoRefundData)
               /\ (answer.ok /\ answer.evmRefundData # NoRefundData) =>
                     /\ opResult.kind = "returned"
                     /\ opResult.value = answer.evmRefundData
               /\ ~answer.ok => opResult.kind = "threw"

\* the remote service answered a refund without EVM refund data
C28_Witness ==
    /\ opResult.op = "getEvmRefundCallData"
    /\ opResult.kind = "threw"
    /\ opResult.error = NoRefundDataError
    /\ calls[1].returned.ok
    /\ calls[1].returned.message = "refunded"

-----------------------------------------------------------------------------
(* Properties of every operation, checked under SpecRegistry *)

\* C29, as claimed: outside the re-fetch of getPendingSwaps, an operation
\* whose remote or wallet call is rejected throws: isAvailable, getSwapStatus,
\* getAvailablePairs, claimSwap, refundSwap, getEvmFundingCallData and
\* getEvmRefundCallData never turn the rejection into a value they return.
\* isAvailable catches the rejection of healthCheck and returns false.
C29_RemoteFailurePropagates ==
    [][/\ \A h \in HealthAnswers :
            (opResult'.op = "isAvailable" /\ isAvailable(h) /\ ~h.ok) => opResult'.kind = "threw"
       /\ \A i \in 1..Len(storage), s \in StatusAnswers :
            (opResult'.op = "getSwapStatus" /\ getSwapStatus(i, s) /\ ~s.ok) => opResult'.kind = "threw"
       /\ \A l \in RegistryListings \cup {NoListing} :
            (opResult'.op = "getAvailablePairs" /\ getAvailablePairs(l) /\ ~l.ok) => opResult'.kind = "threw"
       /\ \A i \in 1..Len(storage), r \in ClaimAnswers :
            (opResult'.op = "claimSwap" /\ claimSwap(i, r) /\ ~r.ok) => opResult'.kind = "threw"
       /\ \A i \in 1..Len(storage), d \in {"", "ark1refund"}, s \in StatusAnswers,
             w \in BOOLEAN, r \in RefundAnswers :
            (opResult'.op = "refundSwap" /\ refundSwap(i, d, s, w, r) /\ ~s.ok) => opResult'.kind = "threw"
       /\ \A i \in 1..Len(storage), ok \in BOOLEAN :
            (opResult'.op = "getEvmFundingCallData" /\ getEvmFundingCallData(i, ok) /\ ~ok) => opResult'.kind = "threw"
       /\ \A i \in 1..Len(storage), r \in RefundAnswers :
            (opResult'.op = "getEvmRefundCallData" /\ getEvmRefundCallData(i, r) /\ ~r.ok) => opResult'.kind = "threw"]_vars

-----------------------------------------------------------------------------
(* Properties of the swap operations, checked under SpecSwap *)

\* C1: the status of every swap value an operation returns (the swap
\* creations, getSwapStatus, getPendingSwaps, getSwapHistory) is one of the
\* seven normalized statuses, whatever status string the remote service or
\* the swap storage holds for the swap.
C1_StatusInClosedSet ==
    opResult.kind = "returned" =>
        \A i \in 1..Len(opResult.swaps) : opResult.swaps[i].status \in NormalizedStatuses

\* a listing that holds a swap whose stored status is no SDK status
C1_Witness ==
    /\ opResult.op = "getSwapHistory"
    /\ \E i \in 1..Len(storage), j \in 1..Len(opResult.swaps) :
          /\ storage[i].status = "some_future_status"
          /\ opResult.swaps[j].id = storage[i].swapId
          /\ opResult.swaps[j].status = "pending"

-----------------------------------------------------------------------------
(* Properties of the token registry, checked under SpecRegistry *)

\* C11, as claimed: over the resolutions of one instance the registry asks
\* for the token listing at most once.
C11_AtMostOneFetch == tokenFetches <= 1

\* C11, amended: a resolution asks for the token listing only while no
\* listing has been obtained, and asks once; when the cache is built no
\* resolution asks again, whether it hits, falls back or fails with
\* not-found.  (A request that fails leaves the cache unbuilt, and the next
\* resolution asks again.)
C11_FetchOnlyWhileUnbuilt ==
    [][/\ tokenFetches' # tokenFetches =>
            (tokenCache.null /\ tokenFetches' = tokenFetches + 1)
       /\ ~tokenCache.null => (tokenFetches' = tokenFetches /\ ~tokenCache'.null)]_vars

\* a resolution that misses without asking, after a request that failed and
\* one that succeeded
C11_Witness ==
    /\ tokenFetches = 2
    /\ ~tokenCache.null
    /\ opResult.kind = "threw"
    /\ opResult.error = NotFoundError(asked[1], asked[2])
    /\ calls = <<>>

\* the operations that resolve a token
ResolvingOps ==
    {"getQuoteBtcToStablecoin", "getQuoteStablecoinToBtc",
     "swapBtcToStablecoin", "swapStablecoinToBtc"}

\* the calls that ask the remote service for a quote or a swap
QuoteOrCreate ==
    {"getQuote", "createArkadeToEvmSwapGeneric", "createEvmToArkadeSwapGeneric"}

\* the tokens of the fetched set
Fetched == {tokenCache.entries[i].value : i \in 1..Len(tokenCache.entries)}

\* the canonical key (symbol_chainSuffix) of the tokens the service lists
CanonicalKeyTable ==
    {<<BtcArkade, "btc_arkade">>, <<UsdcPol, "usdc_pol">>, <<UsdcEth, "usdc_eth">>,
     <<UsdtPol, "usdt_pol">>, <<UsdtArb, "usdt_arb">>, <<UsdcArbLower, "usdc_arb">>}

\* the symbol of a token name, its chain suffix stripped, in upper case
NameSymbolTable ==
    {<<"usdc_pol", "USDC">>, <<"usdc_eth", "USDC">>, <<"usdt_arb", "USDT">>,
     <<"usdt0_pol", "USDT0">>}

\* the symbol of a listed token, in upper case
TokenSymbolTable ==
    {<<BtcArkade, "BTC">>, <<UsdcPol, "USDC">>, <<UsdcEth, "USDC">>,
     <<UsdtPol, "USDT">>, <<UsdtArb, "USDT">>, <<UsdcArbLower, "USDC">>}

\* the chain value of the chains by name
ChainTable == {<<"polygon", "137">>, <<"ethereum", "1">>, <<"arbitrum", "42161">>}

\* the fetched tokens whose canonical key is the token asked for
ExactMatches == {t \in Fetched : \E k \in CanonicalKeyTable : k[1] = t /\ k[2] = asked[1]}

\* the fetched tokens on the chain asked for whose symbol is that of the
\* token asked for
FallbackMatches ==
    {t \in Fetched :
        /\ \E c \in ChainTable : c[1] = asked[2] /\ c[2] = t.chain
        /\ \E a \in NameSymbolTable, b \in TokenSymbolTable :
              a[1] = asked[1] /\ b[1] = t /\ a[2] = b[2]}

\* the last operation failed with the not-found error
NotFound ==
    /\ opResult.kind = "threw"
    /\ opResult.error = NotFoundError(asked[1], asked[2])

\* C13: a resolution over the fetched set fails with not-found exactly when
\* no fetched token has the asked token as canonical key and none has the
\* asked chain and the asked symbol; the operation then makes no quote or
\* create call; otherwise the operation goes on with a token of the exact
\* matches when there is one, and of the fallback matches when there is not.
C13_NotFoundExactly ==
    (opResult.op \in ResolvingOps /\ ~tokenCache.null) =>
        /\ NotFound <=> (ExactMatches = {} /\ FallbackMatches = {})
        /\ NotFound => \A i \in 1..Len(calls) : calls[i].api \notin QuoteOrCreate
        /\ ~NotFound =>
              \E i \in 1..Len(calls) :
                  /\ calls[i].api \in QuoteOrCreate
                  /\ \E t \in (IF ExactMatches # {} THEN ExactMatches ELSE FallbackMatches) :
                        calls[i].arg = t.token_id

\* a token found by the fallback scan only
C13_Witness ==
    /\ opResult.op \in ResolvingOps
    /\ opResult.kind = "returned"
    /\ ~tokenCache.null
    /\ ExactMatches = {}
    /\ FallbackMatches # {}

\* C14: once the token cache is built, no operation of the skill changes it.
C14_CacheNeverMutated == [][~tokenCache.null => tokenCache' = tokenCache]_vars

\* the pairs of a later listing returned while the cache holds the first
C14_Witness ==
    /\ ~tokenCache.null
    /\ tokenCache.entries[2].value = UsdcPol
    /\ opResult.op = "getAvailablePairs"
    /\ opResult.kind = "returned"
    /\ opResult.value[1].to = "usdt_pol"

\* C35, as claimed: the token a creation sends to the remote service belongs
\* to the chain asked for, the chain whose numeric id goes with it in the
\* same call.  The lookup by exact key, this.tokenCache.get(token), never
\* looks at the chain argument.
C35_TokenOfTheRequestedChain ==
    \A i \in 1..Len(calls) :
        calls[i].api \in {"createArkadeToEvmSwapGeneric", "createEvmToArkadeSwapGeneric"} =>
            /\ calls[i].evmChainId = EVM_CHAIN_IDS[asked[2]]
            /\ \A t \in Fetched :
                  t.token_id = calls[i].arg => t.chain = EVM_CHAIN_MAP[asked[2]]

-----------------------------------------------------------------------------
(* Properties of concurrent resolutions, checked under SpecRace *)

\* C12: when the resolutions in flight are all suspended at the remote fetch
\* and the cache is not built yet, one token listing has been asked for, not
\* one for each resolution.
C12_ConcurrentMissesCoalesced ==
    (tokenCache.null /\ \A p \in Resolvers : rPc[p] = "getTokens") => tokenFetches <= 1

\* C34, as claimed: an instance builds at most one remote client, also when
\* several operations start before the first build has finished.  Each
\* getClient() that finds this.client unset starts its own builder.build(),
\* and each build that ends assigns this.client.
C34_AtMostOneClientBuilt == clientBuilds <= 1

-----------------------------------------------------------------------------
(* Properties of the reported amounts, checked under SpecAmounts *)

\* C31: the exchange rate of a result is a finite number: 0 whenever the
\* source amount or the target amount is zero or negative; otherwise, for
\* btc_to_stablecoin, the number whose product with sourceAmount / 1e8 is
\* the target amount, and for stablecoin_to_btc the number whose 1e8th part
\* times the target amount is the source amount.  100000 sats for 97.5 units
\* give 97500, and 100 units for 100000 sats give 100000.
C31_ExchangeRateGuarded ==
    (opResult.kind = "returned"
        /\ opResult.op \in {"swapBtcToStablecoin", "swapStablecoinToBtc",
                            "getSwapStatus", "getSwapHistory"}) =>
        LET v == opResult.value
            s == v.sourceAmount
            t == v.targetAmount
            r == v.exchangeRate
            dir == IF opResult.op = "swapBtcToStablecoin" THEN "btc_to_stablecoin"
                   ELSE IF opResult.op = "swapStablecoinToBtc" THEN "stablecoin_to_btc"
                   ELSE v.direction
            e8 == Num(100000000, 1)
        IN  /\ r.kind = "finite"
            /\ (s.n <= 0 \/ t.n <= 0) => r = Num(0, 1)
            /\ (s.n > 0 /\ t.n > 0 /\ dir = "btc_to_stablecoin") =>
                   NumMul(r, NumDiv(s, e8)) = t
            /\ (s.n > 0 /\ t.n > 0 /\ dir = "stablecoin_to_btc") =>
                   NumMul(NumDiv(r, e8), t) = s
            /\ (dir = "btc_to_stablecoin" /\ s = Num(100000, 1) /\ t = Num(195, 2)) =>
                   r = Num(97500, 1)
            /\ (dir = "stablecoin_to_btc" /\ s = Num(100, 1) /\ t = Num(100000, 1)) =>
                   r = Num(100000, 1)

\* the status of a swap of 100 units for 100000 sats reported at the rate
\* 100000
C31_Witness ==
    /\ opResult.kind = "returned"
    /\ opResult.op = "getSwapStatus"
    /\ opResult.value.direction = "stablecoin_to_btc"
    /\ opResult.value.sourceAmount = Num(100, 1)
    /\ opResult.value.targetAmount = Num(100000, 1)
    /\ opResult.value.exchangeRate = Num(100000, 1)

\* C36, as claimed: the fee percentage of a creation result is a finite
\* number whatever amounts the remote service reports.  swapStablecoinToBtc
\* tests source_amount > 0 and divides fee_sats by target_amount, so a
\* positive source amount with a zero target amount gives Infinity, or NaN
\* when fee_sats is zero too.
C36_FeePercentageFinite ==
    (opResult.kind = "returned"
        /\ opResult.op \in {"swapBtcToStablecoin", "swapStablecoinToBtc"}) =>
        opResult.value.fee.percentage.kind = "finite"

-----------------------------------------------------------------------------
(* Properties of the quote operations, checked under SpecQuote *)

\* a quote returned by getQuoteStablecoinToBtc
QuotedToBtc == opResult.kind = "returned" /\ opResult.op = "getQuoteStablecoinToBtc"

\* C15: for a positive rate n/d, fees F and source amount S, the targetAmount
\* T of getQuoteStablecoinToBtc is a whole number of sats, never negative:
\* it is 0 when the fees exceed the gross proceeds S * 1e8 * d / n, and the
\* whole part of the proceeds less the fees otherwise.
C15_TargetAmountClamped ==
    (QuotedToBtc /\ opResult.value.exchangeRate.kind = "finite"
                 /\ opResult.value.exchangeRate.n > 0) =>
        LET q == opResult.value
            T == q.targetAmount
            net == q.sourceAmount * q.exchangeRate.d * 100000000
                       - q.fee.amount * q.exchangeRate.n
        IN  /\ T.kind = "finite" /\ T.d = 1 /\ T.n >= 0
            /\ net < 0 => T.n = 0
            /\ net >= 0 => (T.n * q.exchangeRate.n <= net
                             /\ net < (T.n + 1) * q.exchangeRate.n)

\* fees of 5100 sats on gross proceeds of 1025 sats
C15_Witness ==
    /\ QuotedToBtc
    /\ opResult.value.sourceAmount = 1
    /\ opResult.value.exchangeRate = Num(97500, 1)
    /\ opResult.value.fee.amount = 5100
    /\ opResult.value.targetAmount = Num(0, 1)

\* C16: a quote made at an exchange rate of zero reports a targetAmount of
\* zero (not NaN, not an infinite amount).
C16_ZeroRateGivesZero ==
    (opResult.kind = "returned"
        /\ opResult.op \in {"getQuoteBtcToStablecoin", "getQuoteStablecoinToBtc"}
        /\ opResult.value.exchangeRate = Num(0, 1)) =>
        opResult.value.targetAmount = Num(0, 1)

-----------------------------------------------------------------------------
(* Properties of the swap creations, checked under SpecCreate *)

\* the positions of the wallet payments among the calls of the last operation
PaymentsMade == {i \in 1..Len(calls) : calls[i].api = "sendBitcoin"}

\* the swap the remote service created last, as the SDK stored it
LastCreated == storage[Len(storage)]

C18_ReturnedFunded ==
    (opResult.op = "swapBtcToStablecoin" /\ opResult.kind = "returned") =>
        /\ Len(opResult.swaps) = 1
        /\ opResult.swaps[1].status = "funded"
        /\ opResult.swaps[1].swapId = LastCreated.swapId
        /\ opResult.swaps[1].fundingTxid = calls[Len(calls)].returned
        /\ opResult.swaps[1].fundingTxid # ""

\* the remote service reported the created swap as already redeemed
C18_Witness ==
    /\ opResult.op = "swapBtcToStablecoin"
    /\ opResult.kind = "returned"
    /\ LastCreated.status = "serverredeemed"
    /\ opResult.swaps[1].status = "funded"
    /\ opResult.swaps[1].fundingTxid = "txid-funding"

\* C19: when the wallet payment fails, swapBtcToStablecoin throws and returns
\* no swap; the payment was made once, it is the last call, no call but the
\* token listing, the creation and the payment was made, and the created
\* swap is in the storage as the remote service created it.
C19_FundingFailureLeavesSwap ==
    (opResult.op = "swapBtcToStablecoin" /\ opResult.kind = "threw"
        /\ PaymentsMade # {}) =>
        /\ opResult.error = "sendBitcoin failed"
        /\ opResult.swaps = <<>>
        /\ PaymentsMade = {Len(calls)}
        /\ calls[Len(calls)].returned = ""
        /\ \A i \in 1..Len(calls) :
              calls[i].api \in {"getTokens", "createArkadeToEvmSwapGeneric", "sendBitcoin"}
        /\ storage # <<>>
        /\ LastCreated.btc_vhtlc_address = calls[Len(calls)].arg
        /\ LastCreated.status \in vocabulary

C19_Witness ==
    /\ opResult.op = "swapBtcToStablecoin"
    /\ opResult.kind = "threw"
    /\ opResult.error = "sendBitcoin failed"
    /\ Len(storage) = 1
    /\ storage[1].status = "pending"
    /\ calls[Len(calls)].api = "sendBitcoin"

\* the table of remote statuses and their normalized status, with the
\* statuses outside the SDK vocabulary that the remote service reports
CreationStatusTable ==
    {<<"pending", "pending">>, <<"clientfunded", "funded">>,
     <<"serverredeemed", "completed">>, <<"some_future_status", "pending">>,
     <<"serverfunded", "processing">>, <<"clientfundedtoolate", "expired">>,
     <<"funded", "pending">>, <<"clientrefunded", "refunded">>,
     <<"clientinvalidfunded", "failed">>}

\* C20: swapStablecoinToBtc makes no wallet payment; a swap it returns has
\* the normalized status of the created swap; the address sent to the
\* remote service is the caller's when the wallet was not asked for its
\* address, and the wallet's own when it was.
C20_NoPaymentRemoteStatus ==
    opResult.op = "swapStablecoinToBtc" =>
        /\ PaymentsMade = {}
        /\ opResult.kind = "returned" =>
              /\ Len(opResult.swaps) = 1
              /\ <<LastCreated.status, opResult.swaps[1].status>> \in CreationStatusTable
              /\ calls[Len(calls)].api = "createEvmToArkadeSwapGeneric"
              /\ calls[Len(calls)].targetAddress =
                    (IF calls[1].api = "getAddress" THEN "ark1wallet" ELSE "ark1caller")

\* a swap created in processing state for the wallet's own address
C20_Witness ==
    /\ opResult.op = "swapStablecoinToBtc"
    /\ opResult.kind = "returned"
    /\ LastCreated.status = "serverfunded"
    /\ opResult.swaps[1].status = "processing"
    /\ calls[1].api = "getAddress"
    /\ calls[Len(calls)].targetAddress = "ark1wallet"

-----------------------------------------------------------------------------
(* Properties of the statuses reported for a swap, checked under SpecSwap *)

\* the status the swap storage holds for the swap of this id, normalized:
\* what the remote service last reported for it
RemoteStatusOf(swapId) ==
    {mapSwapStatus(storage[i].status) : i \in {k \in 1..Len(storage) : storage[k].swapId = swapId}}

\* C30, as claimed: every status an operation reports for a swap is the
\* normalization of the status the remote service reported for that swap;
\* no operation reports a swap further along than the remote service did.
\* swapBtcToStablecoin reports funded whatever the remote service reported.
C30_NeverLocallyAdvanced ==
    opResult.kind = "returned" =>
        \A j \in 1..Len(opResult.swaps) :
            IF opResult.op \in {"swapBtcToStablecoin", "swapStablecoinToBtc"}
            THEN opResult.swaps[j].status \in RemoteStatusOf(opResult.swaps[j].swapId)
            ELSE opResult.swaps[j].status \in RemoteStatusOf(opResult.swaps[j].id)

\* C30, amended: the status reported by swapStablecoinToBtc, getSwapStatus,
\* getPendingSwaps and getSwapHistory is the normalization of the status the
\* remote service reported for the swap (or of its local projection); the
\* one status set locally is the funded of the result of swapBtcToStablecoin,
\* reported once the wallet's payment returned a transaction id and
\* reconciled by the next status fetch.
C30_OnlyFundingAdvances ==
    opResult.kind = "returned" =>
        \A j \in 1..Len(opResult.swaps) :
            IF opResult.op = "swapBtcToStablecoin"
            THEN /\ opResult.swaps[j].status = "funded"
                 /\ calls[Len(calls)].api = "sendBitcoin"
                 /\ calls[Len(calls)].returned # ""
                 /\ opResult.swaps[j].fundingTxid = calls[Len(calls)].returned
            ELSE IF opResult.op = "swapStablecoinToBtc"
            THEN opResult.swaps[j].status \in RemoteStatusOf(opResult.swaps[j].swapId)
            ELSE opResult.swaps[j].status \in RemoteStatusOf(opResult.swaps[j].id)

\* a swap the remote service created as pending, returned as funded after
\* the payment
C30_Witness ==
    /\ opResult.op = "swapBtcToStablecoin"
    /\ opResult.kind = "returned"
    /\ opResult.swaps[1].status = "funded"
    /\ opResult.swaps[1].fundingTxid = "txid-funding"
    /\ RemoteStatusOf(opResult.swaps[1].swapId) = {"pending"}

-----------------------------------------------------------------------------
(* Properties of the status functions, checked under SpecStatus *)

\* the table of remote statuses and their normalized status
ReferenceTable ==
    {<<"pending", "pending">>,
     <<"clientfundingseen", "funded">>, <<"clientfunded", "funded">>,
     <<"serverfunded", "processing">>, <<"clientredeeming", "processing">>,
     <<"clientredeemed", "completed">>, <<"serverredeemed", "completed">>,
     <<"clientredeemedandclientrefunded", "completed">>,
     <<"expired", "expired">>, <<"clientfundedtoolate", "expired">>,
     <<"clientrefunded", "refunded">>,
     <<"clientfundedserverrefunded", "refunded">>,
     <<"clientrefundedserverfunded", "refunded">>,
     <<"clientrefundedserverrefunded", "refunded">>,
     <<"clientinvalidfunded", "failed">>}

\* C2: mapSwapStatus gives a result for every input, and the result is the
\* one the reference table lists for a listed status and "pending" for every
\* other string.
C2_MapAgreesWithTable ==
    mapped # <<>> =>
        /\ mapped[1] \in NormalizedStatuses
        /\ IF \E p \in ReferenceTable : p[1] = sdkStatus
           THEN <<sdkStatus, mapped[1]>> \in ReferenceTable
           ELSE mapped[1] = "pending"

C2_Witness ==
    /\ sdkStatus = "some_future_status"
    /\ mapped # <<>>
    /\ mapped[1] = "pending"

\* C3: isTerminalStatus is true exactly for completed, expired, refunded and
\* failed, and false for every other argument, inside or outside the seven
\* normalized statuses.
C3_TerminalExactly ==
    terminalArg # "" =>
        (terminalRes <=> terminalArg \in {"completed", "expired", "refunded", "failed"})

C3_Witness ==
    /\ terminalArg = "processing"
    /\ terminalRes = FALSE

\* C4, as claimed: for every recognized remote status, normalizing the
\* normalized value gives the same value again.
C4_IdempotentAsClaimed ==
    (Len(mapped) = 2 /\ sdkStatus \in RecognizedStatuses) => mapped[2] = mapped[1]

\* C4, amended: for a recognized remote status the second normalization
\* returns the first result only when that result is "pending" or "expired"
\* (the two normalized names that are also remote statuses); for every other
\* result it returns "pending".
C4_SecondNormalization ==
    (Len(mapped) = 2 /\ sdkStatus \in RecognizedStatuses) =>
        mapped[2] = (IF mapped[1] \in {"pending", "expired"} THEN mapped[1] ELSE "pending")

C4_Witness ==
    /\ sdkStatus = "clientfunded"
    /\ mapped = <<"funded", "pending">>

-----------------------------------------------------------------------------
(* Properties of waitForIncomingFunds, checked under SpecWait *)

\* the completion that settled fundsPromise first
First == settleLog[1]

\* C5: of the three completions (funds callback, timer, setup rejection) one
\* settles the call: resolve()/reject() is called at most once, by the first
\* completion to run, the guard is set exactly then, and the call's outcome is
\* that completion's, whatever arrives later.
C5_FirstArrivalWins ==
    /\ Len(settleLog) <= 1
    /\ settled <=> Len(settleLog) = 1
    /\ settled =>
        /\ fundsPromise.state = (IF First.by = "notification" THEN "fulfilled" ELSE "rejected")
        /\ fundsPromise.funds = First.funds
        /\ fundsPromise.error = First.error
    /\ wfPc = "done" =>
        /\ settled
        /\ outcome.kind = (IF First.by = "notification" THEN "returned" ELSE "threw")
        /\ outcome.error = First.error

\* the call is over and a second completion arrived after the first
C5_Witness ==
    /\ wfPc = "done"
    /\ arrivals >= 2
    /\ Len(settleLog) = 1

\* C6: once the call has completed and the subscription setup has finished
\* (the handle reached the .then handler, or the setup failed), no timer is
\* armed and an established subscription has been unsubscribed; the timer is
\* never armed after completion.
C6_CleanupOnEveryPath ==
    wfPc = "done" =>
        /\ timer # "armed"
        /\ (setup.state = "resolved" /\ stopSubscription = "stop") => unsubscribed >= 1

C6_Witness ==
    /\ wfPc = "done"
    /\ outcome.kind = "threw"
    /\ timer = "fired"
    /\ setup.state = "resolved"
    /\ stopSubscription = "stop"
    /\ unsubscribed = 1

\* C7: when the timer is the first completion, the call throws the timeout
\* error, and stop() is invoked exactly once as soon as the handle has been
\* delivered, before or after the timer fired (and never more than once).
C7_TimeoutUnsubscribesOnce ==
    (wfPc = "done" /\ First.by = "timer") =>
        /\ outcome = [kind |-> "threw", event |-> NoEvent, error |-> TimeoutError]
        /\ unsubscribed <= 1
        /\ stopSubscription = "stop" => unsubscribed = 1

C7_Witness ==
    /\ wfPc = "done"
    /\ First.by = "timer"
    /\ outcome.error = TimeoutError
    /\ stopSubscription = "stop"
    /\ unsubscribed = 1

\* C32, as claimed: in every interleaving of one call the subscription's
\* stop() is invoked at most once.  When the wallet resolves the setup
\* promise and then delivers a notification before the microtasks run, the
\* .then handler finds settled true and calls stop(), and the finally block
\* finds stopSubscription set and calls it again.
C32_UnsubscribedAtMostOnce == unsubscribed <= 1

\* C33: a call with a timeout completes in every behaviour in which the event
\* loop runs the queued reactions and the armed timer fires, whatever the
\* wallet does or leaves undone; a call without a timeout whose subscription
\* setup did not fail has completed only when a notification was delivered.
\* Checked under SpecWaitFair.
C33_CompletesWithTimeout ==
    /\ (wfPc = "awaiting" /\ timeoutMs # <<>>) ~> (wfPc = "done")
    /\ []((wfPc = "done" /\ timeoutMs = <<>> /\ setup.state # "rejected")
             => notified >= 1)

\* a call completed by its timer alone: the wallet neither answered the
\* subscription setup nor delivered a notification
C33_Witness ==
    /\ wfPc = "done"
    /\ timeoutMs # <<>>
    /\ timer = "fired"
    /\ setup.state = "pending"
    /\ notified = 0
    /\ outcome.kind = "threw"
    /\ outcome.error = TimeoutError

\* C8: when a funds notification is the first completion, the timer never
\* fires afterwards, and the call returns the event of that notification's
\* payload with the timer cleared.
C8_NotificationWins ==
    (settled /\ First.by = "notification") =>
        /\ timer # "fired"
        /\ wfPc = "done" =>
            /\ outcome = [kind |-> "returned", event |-> BuildEvent(First.funds), error |-> ""]
            /\ timer = (IF timeoutMs # <<>> THEN "cleared" ELSE "none")

C8_Witness ==
    /\ wfPc = "done"
    /\ First.by = "notification"
    /\ notified = 2
    /\ timer = "cleared"
    /\ outcome.kind = "returned"

\* C9: a call settled by the setup rejection throws the error the setup
\* raised; a call settled by the timer throws the timeout error; a setup
\* rejection that arrives after the call settled changes nothing.
C9_ErrorOfTheFirstFailure ==
    wfPc = "done" =>
        /\ First.by = "setup" =>
            /\ setup.state = "rejected"
            /\ outcome = [kind |-> "threw", event |-> NoEvent, error |-> setup.error]
        /\ First.by = "timer" =>
            outcome = [kind |-> "threw", event |-> NoEvent, error |-> TimeoutError]
        /\ (First.by # "setup" /\ setup.state = "rejected") =>
            /\ outcome.error # setup.error
            /\ fundsPromise.error # setup.error

C9_Witness ==
    /\ wfPc = "done"
    /\ First.by = "setup"
    /\ outcome.kind = "threw"
    /\ outcome.error = "wallet is locked"

\* the sum of the values of the first n coins
RECURSIVE SumTo(_, _)
SumTo(coins, n) == IF n = 0 THEN 0 ELSE SumTo(coins, n - 1) + coins[n].value

\* the "txid:vout" names of the coins the wallet may report
CoinIdTable ==
    {<<"aa", 0, "aa:0">>, <<"aa", 1, "aa:1">>, <<"bb", 0, "bb:0">>,
     <<"cc", 7, "cc:7">>}

\* the coins of a notification: coins for utxo, newVtxos for vtxo
CoinsOf(funds) == IF funds.type = "utxo" THEN funds.coins ELSE funds.newVtxos

\* C10: a returned event has the type of the notification, the sum of the
\* values of its coins as amount, and their "txid:vout" names, in order, as
\* ids; no coins give amount 0 and no ids.
C10_EventOfPayload ==
    outcome.kind = "returned" =>
        LET coins == CoinsOf(First.funds)
            event == outcome.event
        IN  /\ event.type = First.funds.type
            /\ event.type \in {"utxo", "vtxo"}
            /\ event.amount = SumTo(coins, Len(coins))
            /\ Len(event.ids) = Len(coins)
            /\ \A i \in 1..Len(coins) :
                  <<coins[i].txid, coins[i].vout, event.ids[i]>> \in CoinIdTable
            /\ coins = <<>> => (event.amount = 0 /\ event.ids = <<>>)

C10_Witness ==
    /\ outcome.kind = "returned"
    /\ outcome.event.type = "vtxo"
    /\ First.funds.spentVtxos # <<>>
    /\ outcome.event.ids = <<"aa:1", "bb:0">>
    /\ outcome.event.amount = 21546

====
